---------------------------- MODULE Spec2Model ----------------------------
(***************************************************************************)
(* A model of the MCP integration layer of mlFace (src-tauri/src/mcp):     *)
(*   - the server manager (server.rs): the registry maps `servers` and     *)
(*     `clients`, each behind a tokio RwLock, and the manager operations;  *)
(*   - one client session (client.rs) on a stdio or an SSE transport       *)
(*     (transport.rs);                                                     *)
(*   - operations run on their own on an input: discover_servers, the      *)
(*     save and load of the config file, the SSE POST endpoint.            *)
(* The two parts have their own specifications: MgrSpec, MgrFairSpec and   *)
(* MgrSoloFairSpec for the manager; Spec (request traffic), InitSpec (the  *)
(* handshake), CloseSpec and CloseFairSpec (shutdown) for the session.     *)
(***************************************************************************)
EXTENDS Integers, Sequences, FiniteSets, TLC

(************************ the manager's state ******************************)
VARIABLES
    servers,    \* McpServerManager.servers: name -> [command, process]
    clients,    \* McpServerManager.clients: name -> client handle
    slock,      \* the RwLock around servers
    clock,      \* the RwLock around clients
    mpc,        \* per task: the place in the manager operation it runs
    mname,      \* per task: the `name` argument of the running operation
    mcmd,       \* per task: the command of the config passed to register_server
    mret,       \* per task: where a nested stop_server / start_server returns to
    mres,       \* per task: result of the last returned operation
    mclient,    \* per task: the client built / returned by get_client (0: none)
    nclients    \* number of McpClient values constructed so far

mvars == <<servers, clients, slock, clock, mpc, mname, mcmd, mret, mres,
           mclient, nclients>>

(************************ the session's state ******************************)
VARIABLES
    next_id,      \* McpClient.next_id
    pending,      \* McpClient.pending_requests: set of [key, caller, n]
    server_info,  \* McpClient.server_info: NoVal (None) or the stored result
    cpc,          \* per caller: the place in the client method it runs
    ccall,        \* per caller: the client method it called
    cn,           \* per caller: the id (as a number) of its request
    chan,         \* per caller: the oneshot its send_request waits on
    cres,         \* per caller: what the client method returned
    rpc,          \* the client's reader task: "loop", "wait" or "exited"
    rchan,        \* the oneshot the reader's transport.receive() waits on
    rlast,        \* the error the reader's last failed receive() returned
    talive,       \* the transport's reader task is still in its loop
    shutdownq,    \* signals in the shutdown channel (capacity 1)
    receivers,    \* oneshot senders in the `receivers` vector (stdio: and in receive_tx)
    child,        \* Arc<Mutex<Option<Child>>> still holds the child
    childState,   \* "running" or "dead"
    childIn,      \* the requests the child has read and not answered yet
    childOut,     \* lines the child has written to stdout, not yet read
    inputq,       \* the writer queue (input_tx / input_rx)
    walive,       \* the stdin writer task is still in its loop
    wire,         \* per method: how many messages transport.send has accepted
    tkind,        \* the transport behind the client: "stdio" or "sse"
    inputcap,     \* capacity of the writer queue (transport.rs:68)
    conn,         \* SSE: where the reader task's connect block is: "none" (not
                  \* begun), "get" (GET sent), "open" (reading the event stream)
                  \* or "sleep" (waiting retry_delay)
    recvq,        \* SSE: oneshot senders in receive_tx, not yet pushed
    retry_delay,  \* SSE: the reader task's retry_delay, in ms
    sent,         \* how many unsolicited messages the server has sent
    arg,          \* the input of an operation that is run on its own
    ret           \* what that operation returned (NoResult: not run yet)

svars == <<next_id, pending, server_info, cpc, ccall, cn, chan, cres, rpc,
           rchan, rlast, talive, shutdownq, receivers, child,
           childState, childIn, childOut, inputq, walive,
           wire, tkind, inputcap, conn, recvq, sent, retry_delay,
           arg, ret>>

(***************************************************************************)
(* Part I.  The server manager (server.rs)                                 *)
(***************************************************************************)

\* The tasks of the async runtime that call into the manager.
Tasks == {"t1", "t2"}

\* Server names the callers use.
Names == {"x", "y"}

\* A bound: how many McpClient values get_client may construct in a run.
MaxClients == 2

\* Commands are strings; a string is modelled as the sequence of its pieces
\* so that a prefix test is computed, not looked up.
StdioCommand == <<"/bin/", "srv">>
HttpCommand == <<"http://", "h/sse">>
Commands == {StdioCommand, HttpCommand}

\* str::starts_with
starts_with(s, prefix) == Len(s) > 0 /\ Head(s) = prefix

\* server.rs:149  the test that selects the SSE transport
IsHttpCommand(command) ==
    starts_with(command, "http://") \/ starts_with(command, "https://")

\* McpServerConfig (name is the key; args and env play no part in the
\* operations modelled here); process: whether a Child is attached.
McpServerConfig(command) == [command |-> command, process |-> FALSE]

\* The configs a file read by load_from_file may hold.
FileContents ==
    { [n \in D |-> McpServerConfig(HttpCommand)] : D \in {{}, {"x"}, {"x", "y"}} }

\* Clone for McpServerConfig (lines 24-34): the copy has no process
ConfigClone(config) == [config EXCEPT !.process = FALSE]

\* HashMap::insert / HashMap::remove
MapInsert(m, k, v) == [n \in DOMAIN m \cup {k} |-> IF n = k THEN v ELSE m[n]]
MapRemove(m, k) == [n \in DOMAIN m \ {k} |-> m[n]]
\* inserting every entry of `src` into m (load_from_file's loop)
MapExtend(m, src) ==
    [n \in DOMAIN m \cup DOMAIN src |-> IF n \in DOMAIN src THEN src[n] ELSE m[n]]

(***************************************************************************)
(* tokio::sync::RwLock: any number of readers or one writer; requests are  *)
(* served first-in first-out, so a queued writer holds back later readers. *)
(***************************************************************************)
FreeLock == [readers |-> {}, writer |-> {}, queue |-> <<>>]

\* t asks for the lock in mode m ("r" or "w") and joins the queue
LockRequest(l, t, m) == [l EXCEPT !.queue = Append(@, <<t, m>>)]

\* the request at the head of the queue is t's and can be granted now
LockGrantable(l, t) ==
    /\ Len(l.queue) > 0
    /\ Head(l.queue)[1] = t
    /\ l.writer = {}
    /\ (Head(l.queue)[2] = "w" => l.readers = {})

LockGrant(l, t) ==
    IF Head(l.queue)[2] = "w"
    THEN [l EXCEPT !.queue = Tail(@), !.writer = {t}]
    ELSE [l EXCEPT !.queue = Tail(@), !.readers = @ \cup {t}]

\* dropping a guard
LockReleaseW(l, t) == [l EXCEPT !.writer = @ \ {t}]
LockReleaseR(l, t) == [l EXCEPT !.readers = @ \ {t}]

LockHeld(l) == l.readers # {} \/ l.writer # {}

MgrInit ==
    /\ servers = << >>
    /\ clients = << >>
    /\ slock = FreeLock
    /\ clock = FreeLock
    /\ mpc = [t \in Tasks |-> "idle"]
    /\ mname = [t \in Tasks |-> "x"]
    /\ mcmd = [t \in Tasks |-> StdioCommand]
    /\ mret = [t \in Tasks |-> "idle"]
    /\ mres = [t \in Tasks |-> "none"]
    /\ mclient = [t \in Tasks |-> 0]
    /\ nclients = 0

\* the task goes to place p
Goto(t, p) == mpc' = [mpc EXCEPT ![t] = p]

\* the running operation returns `r` to its caller
Return(t, r) ==
    /\ mpc' = [mpc EXCEPT ![t] = "done"]
    /\ mres' = [mres EXCEPT ![t] = r]

\* a nested stop_server / start_server hands `r` back to where it was called
SubReturn(t, r) ==
    /\ mpc' = [mpc EXCEPT ![t] = mret[t]]
    /\ mres' = [mres EXCEPT ![t] = r]

\* a caller starts an operation with argument `n`; the first thing every
\* operation does is to ask for a lock, which the call step includes
Enter(t, n, p) ==
    /\ mpc[t] = "idle"
    /\ mname' = [mname EXCEPT ![t] = n]
    /\ mret' = [mret EXCEPT ![t] = "idle"]
    /\ mres' = [mres EXCEPT ![t] = "none"]
    /\ mclient' = [mclient EXCEPT ![t] = 0]
    /\ mpc' = [mpc EXCEPT ![t] = p]

(*************************** register_server *******************************)
RegisterCall(t) ==
    \E n \in Names, c \in Commands :
        /\ Enter(t, n, "reg_w")
        /\ mcmd' = [mcmd EXCEPT ![t] = c]
        /\ slock' = LockRequest(slock, t, "w")
        /\ UNCHANGED <<svars, servers, clients, clock, nclients>>

\* The same with the server started at registration.
RegisterInsertStarts(t) ==
    /\ mpc[t] = "reg_w"
    /\ LockGrantable(slock, t)
    /\ servers' = MapInsert(servers, mname[t],
                            [McpServerConfig(mcmd[t]) EXCEPT !.process = TRUE])
    /\ slock' = [slock EXCEPT !.queue = Tail(@)]
    /\ Return(t, "ok")
    /\ UNCHANGED <<svars, clients, clock, mname, mcmd, mret, mclient, nclients>>

\* lines 52-54: insert under the servers write guard
RegisterInsert(t) ==
    /\ mpc[t] = "reg_w"
    /\ LockGrantable(slock, t)
    /\ servers' = MapInsert(servers, mname[t], McpServerConfig(mcmd[t]))
    /\ slock' = [slock EXCEPT !.queue = Tail(@)]
    /\ Return(t, "ok")
    /\ UNCHANGED <<svars, clients, clock, mname, mcmd, mret, mclient, nclients>>

(***************************** stop_server *********************************)
StopCall(t) ==
    \E n \in Names :
        /\ Enter(t, n, "stop_c_w")
        /\ clock' = LockRequest(clock, t, "w")
        /\ UNCHANGED <<svars, servers, clients, slock, mcmd, nclients>>

\* lines 112-114: take the clients write lock and remove the client
StopRemoveClient(t) ==
    /\ mpc[t] = "stop_c_w"
    /\ LockGrantable(clock, t)
    /\ IF mname[t] \in DOMAIN clients
       THEN /\ clients' = MapRemove(clients, mname[t])
            /\ clock' = LockGrant(clock, t)
            /\ Goto(t, "stop_close")
            /\ UNCHANGED slock
       ELSE /\ clock' = [clock EXCEPT !.queue = Tail(@)]
            /\ slock' = LockRequest(slock, t, "w")
            /\ Goto(t, "stop_s_w")
            /\ UNCHANGED clients
    /\ UNCHANGED <<svars, servers, mname, mcmd, mret, mres, mclient, nclients>>

\* The same with a failed close handed to the caller.
StopCloseFails(t) ==
    /\ mpc[t] = "stop_close"
    /\ clock' = LockReleaseW(clock, t)
    /\ \E closed \in BOOLEAN :
          IF closed
          THEN /\ slock' = LockRequest(slock, t, "w")
               /\ Goto(t, "stop_s_w")
               /\ UNCHANGED mres
          ELSE /\ SubReturn(t, "err")
               /\ UNCHANGED slock
    /\ UNCHANGED <<svars, servers, clients, mname, mcmd, mret, mclient, nclients>>

\* line 116: client.close() runs under the clients write lock; whatever it
\* returns is dropped.  Then the guard goes and the servers lock is asked for.
StopClose(t) ==
    /\ mpc[t] = "stop_close"
    /\ clock' = LockReleaseW(clock, t)
    /\ slock' = LockRequest(slock, t, "w")
    /\ Goto(t, "stop_s_w")
    /\ UNCHANGED <<svars, servers, clients, mname, mcmd, mret, mres, mclient, nclients>>

\* The same with the config removed together with its child.
StopKillRemovesConfig(t) ==
    /\ mpc[t] = "stop_s_w"
    /\ LockGrantable(slock, t)
    /\ servers' = MapRemove(servers, mname[t])
    /\ slock' = [slock EXCEPT !.queue = Tail(@)]
    /\ SubReturn(t, "ok")
    /\ UNCHANGED <<svars, clients, clock, mname, mcmd, mret, mclient, nclients>>

\* lines 121-129: detach and kill the child
StopKill(t) ==
    /\ mpc[t] = "stop_s_w"
    /\ LockGrantable(slock, t)
    /\ servers' = IF mname[t] \in DOMAIN servers
                  THEN [servers EXCEPT ![mname[t]].process = FALSE]
                  ELSE servers
    /\ slock' = [slock EXCEPT !.queue = Tail(@)]
    /\ SubReturn(t, "ok")
    /\ UNCHANGED <<svars, clients, clock, mname, mcmd, mret, mclient, nclients>>

(*************************** unregister_server *****************************)
\* line 60: stop_server(name) first
UnregisterCall(t) ==
    \E n \in Names :
        /\ mpc[t] = "idle"
        /\ mname' = [mname EXCEPT ![t] = n]
        /\ mret' = [mret EXCEPT ![t] = "unreg"]
        /\ mres' = [mres EXCEPT ![t] = "none"]
        /\ mclient' = [mclient EXCEPT ![t] = 0]
        /\ mpc' = [mpc EXCEPT ![t] = "stop_c_w"]
        /\ clock' = LockRequest(clock, t, "w")
        /\ UNCHANGED <<svars, servers, clients, slock, mcmd, nclients>>

\* line 63
UnregisterLockServers(t) ==
    /\ mpc[t] = "unreg"
    /\ slock' = LockRequest(slock, t, "w")
    /\ Goto(t, "unreg_s_w")
    /\ UNCHANGED <<svars, servers, clients, clock, mname, mcmd, mret, mres, mclient,
                   nclients>>

\* lines 63-67: with the servers write guard held, remove the config and ask
\* for the clients write lock
UnregisterRemoveServer(t) ==
    /\ mpc[t] = "unreg_s_w"
    /\ LockGrantable(slock, t)
    /\ servers' = MapRemove(servers, mname[t])
    /\ slock' = LockGrant(slock, t)
    /\ clock' = LockRequest(clock, t, "w")
    /\ Goto(t, "unreg_c_w")
    /\ UNCHANGED <<svars, clients, mname, mcmd, mret, mres, mclient, nclients>>

\* The same with the client left in the map.
UnregisterKeepsClient(t) ==
    /\ mpc[t] = "unreg_c_w"
    /\ LockGrantable(clock, t)
    /\ clock' = [clock EXCEPT !.queue = Tail(@)]
    /\ slock' = LockReleaseW(slock, t)
    /\ Return(t, "ok")
    /\ UNCHANGED <<svars, servers, clients, mname, mcmd, mret, mclient, nclients>>

\* lines 67-70: remove the client; both guards drop on return
UnregisterRemoveClient(t) ==
    /\ mpc[t] = "unreg_c_w"
    /\ LockGrantable(clock, t)
    /\ clients' = MapRemove(clients, mname[t])
    /\ clock' = [clock EXCEPT !.queue = Tail(@)]
    /\ slock' = LockReleaseW(slock, t)
    /\ Return(t, "ok")
    /\ UNCHANGED <<svars, servers, mname, mcmd, mret, mclient, nclients>>

(***************************** start_server ********************************)
StartCall(t) ==
    \E n \in Names :
        /\ Enter(t, n, "start_w")
        /\ slock' = LockRequest(slock, t, "w")
        /\ UNCHANGED <<svars, servers, clients, clock, mcmd, nclients>>

\* The same without the test for a child already attached.
StartSpawnNoCheck(t) ==
    /\ mpc[t] = "start_w"
    /\ LockGrantable(slock, t)
    /\ slock' = [slock EXCEPT !.queue = Tail(@)]
    /\ IF mname[t] \notin DOMAIN servers
       THEN SubReturn(t, "err") /\ UNCHANGED servers
       ELSE \E spawned \in BOOLEAN :
               IF spawned
               THEN /\ servers' = [servers EXCEPT ![mname[t]].process = TRUE]
                    /\ SubReturn(t, "ok")
               ELSE SubReturn(t, "err") /\ UNCHANGED servers
    /\ UNCHANGED <<svars, clients, clock, mname, mcmd, mret, mclient, nclients>>

\* lines 76-106, all under the servers write guard: unknown name -> error;
\* a child already attached -> Ok; else spawn, which may fail
StartSpawn(t) ==
    /\ mpc[t] = "start_w"
    /\ LockGrantable(slock, t)
    /\ slock' = [slock EXCEPT !.queue = Tail(@)]
    /\ IF mname[t] \notin DOMAIN servers
       THEN SubReturn(t, "err") /\ UNCHANGED servers
       ELSE IF servers[mname[t]].process
            THEN SubReturn(t, "ok") /\ UNCHANGED servers
            ELSE \E spawned \in BOOLEAN :
                    IF spawned
                    THEN /\ servers' = [servers EXCEPT ![mname[t]].process = TRUE]
                         /\ SubReturn(t, "ok")
                    ELSE SubReturn(t, "err") /\ UNCHANGED servers
    /\ UNCHANGED <<svars, clients, clock, mname, mcmd, mret, mclient, nclients>>

(****************************** get_client *********************************)
\* lines 135-136: ask for the clients read lock
GetClientCall(t) ==
    \E n \in Names :
        /\ nclients < MaxClients
        /\ Enter(t, n, "gc_c_w")
        /\ clock' = LockRequest(clock, t, "r")
        /\ UNCHANGED <<svars, servers, clients, slock, mcmd, nclients>>

\* lines 136-143: a cached client is returned; else the read guard on
\* clients drops and the servers read lock is asked for
GetClientCached(t) ==
    /\ mpc[t] = "gc_c_w"
    /\ LockGrantable(clock, t)
    /\ clock' = [clock EXCEPT !.queue = Tail(@)]
    /\ IF mname[t] \in DOMAIN clients
       THEN /\ mclient' = [mclient EXCEPT ![t] = clients[mname[t]]]
            /\ Return(t, "ok")
            /\ UNCHANGED slock
       ELSE /\ slock' = LockRequest(slock, t, "r")
            /\ Goto(t, "gc_s_w")
            /\ UNCHANGED <<mres, mclient>>
    /\ UNCHANGED <<svars, servers, clients, mname, mcmd, mret, nclients>>

\* The same with the servers read guard dropped right after the lookup.
GetClientConfigDropsGuard(t) ==
    /\ mpc[t] = "gc_s_w"
    /\ LockGrantable(slock, t)
    /\ IF mname[t] \notin DOMAIN servers
       THEN /\ slock' = [slock EXCEPT !.queue = Tail(@)]
            /\ Return(t, "err")
            /\ UNCHANGED mret
       ELSE IF IsHttpCommand(servers[mname[t]].command)
            THEN /\ slock' = [slock EXCEPT !.queue = Tail(@)]
                 /\ Goto(t, "gc_sse")
                 /\ UNCHANGED <<mret, mres>>
            ELSE /\ slock' = LockRequest([slock EXCEPT !.queue = Tail(@)], t, "w")
                 /\ mret' = [mret EXCEPT ![t] = "gc_stdio"]
                 /\ Goto(t, "start_w")
                 /\ UNCHANGED mres
    /\ UNCHANGED <<svars, servers, clients, clock, mname, mcmd, mclient, nclients>>

\* lines 143-155: `servers` is a read guard that lives to the end of the
\* function (`config` borrows from it).  Unknown name -> error.  An http(s)
\* command goes on to the SSE transport; any other command calls
\* start_server(name), which asks for the servers WRITE lock while this task
\* still holds the read guard.
GetClientConfig(t) ==
    /\ mpc[t] = "gc_s_w"
    /\ LockGrantable(slock, t)
    /\ IF mname[t] \notin DOMAIN servers
       THEN /\ slock' = [slock EXCEPT !.queue = Tail(@)]
            /\ Return(t, "err")
            /\ UNCHANGED mret
       ELSE IF IsHttpCommand(servers[mname[t]].command)
            THEN /\ slock' = LockGrant(slock, t)
                 /\ Goto(t, "gc_sse")
                 /\ UNCHANGED <<mret, mres>>
            ELSE /\ slock' = LockRequest(LockGrant(slock, t), t, "w")
                 /\ mret' = [mret EXCEPT ![t] = "gc_stdio"]
                 /\ Goto(t, "start_w")
                 /\ UNCHANGED mres
    /\ UNCHANGED <<svars, servers, clients, clock, mname, mcmd, mclient, nclients>>

\* lines 151-163: SseTransport::new may fail; McpClient::new does not
GetClientSse(t) ==
    /\ mpc[t] = "gc_sse"
    /\ \E built \in BOOLEAN :
        IF built
        THEN /\ nclients' = nclients + 1
             /\ mclient' = [mclient EXCEPT ![t] = nclients + 1]
             /\ Goto(t, "gc_init")
             /\ UNCHANGED <<slock, mres>>
        ELSE /\ slock' = LockReleaseR(slock, t)
             /\ Return(t, "err")
             /\ UNCHANGED <<nclients, mclient>>
    /\ UNCHANGED <<svars, servers, clients, clock, mname, mcmd, mret>>

\* lines 166-171: initialize() fails -> error (the client is dropped);
\* succeeds -> ask for the clients write lock
GetClientInitialize(t) ==
    /\ mpc[t] = "gc_init"
    /\ \E initialized \in BOOLEAN :
        IF initialized
        THEN /\ clock' = LockRequest(clock, t, "w")
             /\ Goto(t, "gc_store_w")
             /\ UNCHANGED <<slock, mres, mclient>>
        ELSE /\ slock' = LockReleaseR(slock, t)
             /\ mclient' = [mclient EXCEPT ![t] = 0]
             /\ Return(t, "err")
             /\ UNCHANGED clock
    /\ UNCHANGED <<svars, servers, clients, mname, mcmd, mret, nclients>>

\* lines 169-175: store the client; the servers read guard drops on return
GetClientStore(t) ==
    /\ mpc[t] = "gc_store_w"
    /\ LockGrantable(clock, t)
    /\ clients' = MapInsert(clients, mname[t], mclient[t])
    /\ clock' = [clock EXCEPT !.queue = Tail(@)]
    /\ slock' = LockReleaseR(slock, t)
    /\ Return(t, "ok")
    /\ UNCHANGED <<svars, servers, mname, mcmd, mret, mclient, nclients>>

\* Lines 157-160 (StdioTransport::new after start_server has returned) have no
\* action: the write lock start_server waits for is never granted while the
\* caller's own read guard is alive, so the place "gc_stdio" is never reached.

(************************** load_default_config ****************************)
\* lines 250-257 and 229-232: MCP_CONFIG_PATH unset -> Ok; the file cannot be
\* read or parsed -> error; else ask for the servers write lock
LoadCall(t) ==
    \E outcome \in {"unset", "unreadable", "parsed"} :
        /\ mpc[t] = "idle"
        /\ mret' = [mret EXCEPT ![t] = "idle"]
        /\ mclient' = [mclient EXCEPT ![t] = 0]
        /\ IF outcome = "parsed"
           THEN /\ slock' = LockRequest(slock, t, "w")
                /\ mpc' = [mpc EXCEPT ![t] = "load_w"]
                /\ mres' = [mres EXCEPT ![t] = "none"]
           ELSE /\ Return(t, IF outcome = "unset" THEN "ok" ELSE "err")
                /\ UNCHANGED slock
        /\ UNCHANGED <<svars, servers, clients, clock, mname, mcmd, nclients>>

\* lines 232-238: every config of the file is inserted under its key
LoadInsert(t) ==
    /\ mpc[t] = "load_w"
    /\ LockGrantable(slock, t)
    /\ \E configs \in FileContents : servers' = MapExtend(servers, configs)
    /\ slock' = [slock EXCEPT !.queue = Tail(@)]
    /\ Return(t, "ok")
    /\ UNCHANGED <<svars, clients, clock, mname, mcmd, mret, mclient, nclients>>

(***************************************************************************)
(* The manager's next-state relation                                       *)
(***************************************************************************)
\* the caller has taken the result of the operation it called
MgrDone(t) ==
    /\ mpc[t] = "done"
    /\ mpc' = [mpc EXCEPT ![t] = "idle"]
    /\ mname' = [mname EXCEPT ![t] = "x"]
    /\ mcmd' = [mcmd EXCEPT ![t] = StdioCommand]
    /\ mret' = [mret EXCEPT ![t] = "idle"]
    /\ mres' = [mres EXCEPT ![t] = "none"]
    /\ mclient' = [mclient EXCEPT ![t] = 0]
    /\ UNCHANGED <<svars, servers, clients, slock, clock, nclients>>

\* a caller starts an operation
MgrCall(t) ==
    \/ RegisterCall(t)
    \/ UnregisterCall(t)
    \/ StartCall(t)
    \/ StopCall(t)
    \/ GetClientCall(t)
    \/ LoadCall(t)

\* a running operation takes its next step
MgrRun(t) ==
    \/ RegisterInsert(t)
    \/ StopRemoveClient(t)
    \/ StopClose(t)
    \/ StopKill(t)
    \/ UnregisterLockServers(t)
    \/ UnregisterRemoveServer(t)
    \/ UnregisterRemoveClient(t)
    \/ StartSpawn(t)
    \/ GetClientCached(t)
    \/ GetClientConfig(t)
    \/ GetClientSse(t)
    \/ GetClientInitialize(t)
    \/ GetClientStore(t)
    \/ LoadInsert(t)
    \/ MgrDone(t)

MgrNext == \E t \in Tasks : MgrCall(t) \/ MgrRun(t)

(***************************************************************************)
(* Part II.  One client session (client.rs) on a stdio transport           *)
(* (transport.rs), with the child process at the other end.                *)
(***************************************************************************)

\* The tasks that call methods of the one McpClient.
Callers == {"c1", "c2"}

\* A bound: how many requests the callers issue in a run.
MaxRequests == 2

\* A bound: how many oneshot senders of timed-out receive() calls
\* `receivers` may hold when a further receive() call times out.
MaxStale == 1

\* The methods of the messages the client sends.
Methods == {"initialize", "initialized", "tools/call", "shutdown", "exit"}

\* The InitializeResult the server sends in answer to request n: the model
\* lets the answers to two initialize requests differ, so that it shows
\* which answer a caller got.
InfoValue(n) == <<"info", n>>

\* u64::to_string: the decimal digits of n, most significant first
RECURSIVE ToDecimal(_)
ToDecimal(n) == IF n < 10 THEN <<n>> ELSE Append(ToDecimal(n \div 10), n % 10)

\* The `id` of a response is a serde_json::Value: a string (the server echoes
\* the decimal string it was sent), a number, or something else.
\* client.rs:244-251  the key the reader looks up, "invalid" when the id is
\* neither a string nor a number
ResponseKey(m) ==
    CASE m.idt = "str" -> ToDecimal(m.id)
      [] m.idt = "num" -> ToDecimal(m.id)
      [] OTHER -> "invalid"

\* AtomicU64::fetch_add(1): the value the counter holds afterwards
FetchAddStuck(n) == n
FetchAdd(n) == n + 1

\* HashMap::insert on pending: an entry with the same key is replaced
PendingInsert(p, e) == {x \in p : x.key # e.key} \cup {e}

\* the entries a HashMap::insert of e throws out (their senders are dropped)
PendingReplaced(p, e) == {x \in p : x.key = e.key}

\* HashMap::remove by key
PendingRemoveClears(p, k) == {}
PendingRemove(p, k) == {x \in p : x.key # k}

PendingEntry(p, k) == {x \in p : x.key = k}

\* The caller of entry e still waits on the receiving end of e's oneshot.
Waits(e) ==
    /\ cpc[e.caller] = "sr_wait"
    /\ cn[e.caller] = e.n
    /\ chan[e.caller].st = "open"

\* Messages.  To the child: [kind ("req" / "note"), method, n (the id, 0 for a
\* notification)].  From the child: [kind ("resp"), idt ("str" / "num" /
\* "null": the JSON type of the id), id, body ("result" / "error"), val].
NoVal == <<"none", 0>>
NoMsg == [kind |-> "none", idt |-> "null", id |-> 0, body |-> "none", val |-> NoVal]
Request(method, n) == [kind |-> "req", method |-> method, n |-> n]
Notification(method) == [kind |-> "note", method |-> method, n |-> 0]
\* a notification from the server, the n-th it sends
ServerNotification(n) ==
    [kind |-> "note", idt |-> "null", id |-> n, body |-> "none", val |-> NoVal]
Response(idt, id, body, val) ==
    [kind |-> "resp", idt |-> idt, id |-> id, body |-> body, val |-> val]

\* A oneshot channel as its receiver sees it: st is "none" (no channel),
\* "open" (nothing sent yet), "resp" (Ok(m) was sent), "closed"
\* (Err(ConnectionClosed) was sent) or "canceled" (the sender was dropped);
\* send_request also notes "timeout", "sendfail" and "dropped" (the receiver
\* went with the caller's future) here.
Chan(st, m) == [st |-> st, m |-> m]

\* a Result: Ok(val) or Err(val)
Ok(val) == [st |-> "ok", val |-> val]
Err(kind) == [st |-> "err", val |-> <<kind, 0>>]
NoResult == [st |-> "none", val |-> NoVal]

clientv == <<next_id, pending, server_info>>
callerv == <<cpc, ccall, cn, chan, cres>>
readerv == <<rpc, rchan, rlast>>
taskv == <<talive, shutdownq, receivers>>
childv == <<child, childState, childIn, childOut>>
writerv == <<inputq, walive, wire>>
xportv == <<tkind, inputcap, conn, recvq, sent, retry_delay>>
standv == <<arg, ret>>

\* no operation is run on its own
NoCall == arg = NoVal /\ ret = NoResult

\* transport.rs:254-255  retry_delay at the start of the SSE reader task,
\* and max_retry_delay, in ms
InitialRetryDelay == 100
MaxRetryDelay == 5000

\* A bound: how many messages the server sends without being asked.
MaxLines == 2

\* A bound: the capacity of the writer queue.  The code's channel holds
\* 100 lines (transport.rs:68); the model's holds at most InputCap.
InputCap == 2

\* McpClient::new on a transport that was just built: everything but the
\* kind of the transport and the capacity of its writer queue
SessStart ==
    /\ next_id = 1
    /\ pending = {}
    /\ server_info = NoVal
    /\ cpc = [c \in Callers |-> "idle"]
    /\ ccall = [c \in Callers |-> "none"]
    /\ cn = [c \in Callers |-> 0]
    /\ chan = [c \in Callers |-> Chan("none", NoMsg)]
    /\ cres = [c \in Callers |-> NoResult]
    /\ rpc = "loop"
    /\ rchan = Chan("none", NoMsg)
    /\ rlast = "none"
    /\ talive = TRUE
    /\ shutdownq = 0
    /\ receivers = <<>>
    /\ childState = "running"
    /\ childIn = {}
    /\ childOut = <<>>
    /\ inputq = <<>>
    /\ walive = TRUE
    /\ wire = [m \in Methods |-> 0]
    /\ conn = "none"
    /\ recvq = <<>>
    /\ sent = 0
    /\ retry_delay = InitialRetryDelay

\* a client on a stdio transport
SessInit ==
    /\ SessStart
    /\ tkind = "stdio"
    /\ child = TRUE
    /\ inputcap = InputCap

(***************************** McpClient ***********************************)
\* client.rs:163-180  next_id(), the oneshot, and the insert into pending
Register(c) ==
    LET e == [key |-> ToDecimal(next_id), caller |-> c, n |-> next_id]
    IN  /\ next_id <= MaxRequests
        /\ next_id' = FetchAdd(next_id)
        /\ pending' = PendingInsert(pending, e)
        /\ cn' = [cn EXCEPT ![c] = next_id]
        /\ chan' = [x \in Callers |->
                      IF x = c THEN Chan("open", NoMsg)
                      ELSE IF \E o \in PendingReplaced(pending, e) :
                                  o.caller = x /\ Waits(o)
                           THEN Chan("canceled", NoMsg)
                           ELSE chan[x]]
        /\ cpc' = [cpc EXCEPT ![c] = "sr_send"]

\* the method name of the request a client method sends
MethodOf(call) ==
    CASE call = "initialize" -> "initialize"
      [] call = "call" -> "tools/call"
      [] call = "close" -> "shutdown"

\* a client method returns r
ClientReturn(c, r) ==
    /\ cpc' = [cpc EXCEPT ![c] = "done"]
    /\ cres' = [cres EXCEPT ![c] = r]

\* The same without the look at server_info.
InitializeCallNoCache(c) ==
    /\ cpc[c] = "idle"
    /\ ccall' = [ccall EXCEPT ![c] = "initialize"]
    /\ Register(c)
    /\ UNCHANGED <<mvars, xportv, standv, server_info, cres, readerv, taskv, childv, writerv>>

\* client.rs:45-52  initialize(): with server_info set, the stored result is
\* returned at once; else the request is created
InitializeCall(c) ==
    /\ cpc[c] = "idle"
    /\ ccall' = [ccall EXCEPT ![c] = "initialize"]
    /\ IF server_info # NoVal
       THEN /\ ClientReturn(c, Ok(server_info))
            /\ UNCHANGED <<next_id, pending, cn, chan>>
       ELSE /\ Register(c)
            /\ UNCHANGED cres
    /\ UNCHANGED <<mvars, xportv, standv, server_info, readerv, taskv, childv, writerv>>

\* client.rs:89-96  call_tool (list_tools, read_resource, ... have the same
\* shape: one send_request)
CallToolCall(c) ==
    /\ cpc[c] = "idle"
    /\ ccall' = [ccall EXCEPT ![c] = "call"]
    /\ Register(c)
    /\ UNCHANGED <<mvars, xportv, standv, server_info, cres, readerv, taskv, childv, writerv>>

\* client.rs:141-143  close(): the shutdown request
CloseCall(c) ==
    /\ cpc[c] = "idle"
    /\ ccall' = [ccall EXCEPT ![c] = "close"]
    /\ Register(c)
    /\ UNCHANGED <<mvars, xportv, standv, server_info, cres, readerv, taskv, childv, writerv>>

\* transport.rs:174-187  StdioTransport::send: the line goes into the writer
\* queue, or fails when the writer task is gone.
\* transport.rs:328-355  SseTransport::send: an HTTP POST, which fails when
\* the server is not there.
TransportSendOk == IF tkind = "sse" THEN childState = "running" ELSE walive

\* transport.rs:182  input_tx.send(..).await: with the queue full the call
\* is suspended until the writer task takes a line or ends
TransportSendNeverWaits == TRUE
TransportSendReady == tkind = "sse" \/ ~walive \/ Len(inputq) < inputcap
TransportSend(m) ==
    /\ IF tkind = "sse"
       THEN /\ childIn' = IF m.kind = "req" THEN childIn \cup {m} ELSE childIn
            /\ UNCHANGED inputq
       ELSE /\ inputq' = Append(inputq, m)
            /\ UNCHANGED childIn
    /\ wire' = [wire EXCEPT ![m.method] = @ + 1]
    /\ UNCHANGED walive

\* client.rs:183  transport.send(request).await?
SendRequestSend(c) ==
    /\ cpc[c] = "sr_send"
    /\ TransportSendReady
    /\ cpc' = [cpc EXCEPT ![c] = "sr_wait"]
    /\ IF TransportSendOk
       THEN /\ TransportSend(Request(MethodOf(ccall[c]), cn[c]))
            /\ UNCHANGED chan
       ELSE /\ chan' = [chan EXCEPT ![c] = Chan("sendfail", NoMsg)]
            /\ UNCHANGED <<writerv, childIn>>
    /\ UNCHANGED <<mvars, xportv, standv, clientv, ccall, cn, cres, readerv, taskv, child,
                   childState, childOut>>

\* The same without the cleanup of pending.
SendRequestTimeoutLeavesEntry(c) ==
    /\ cpc[c] = "sr_wait"
    /\ chan[c].st = "open"
    /\ chan' = [chan EXCEPT ![c] = Chan("timeout", NoMsg)]
    /\ UNCHANGED <<mvars, xportv, standv, clientv, cpc, ccall, cn, cres, readerv, taskv, childv, writerv>>

\* client.rs:186,191-199  REQUEST_TIMEOUT expires with nothing on the
\* oneshot: the id is removed from pending
SendRequestTimeout(c) ==
    /\ cpc[c] = "sr_wait"
    /\ chan[c].st = "open"
    /\ pending' = PendingRemove(pending, ToDecimal(cn[c]))
    /\ chan' = [chan EXCEPT ![c] = Chan("timeout", NoMsg)]
    /\ UNCHANGED <<mvars, xportv, standv, next_id, server_info, cpc, ccall, cn, cres, readerv, taskv,
                   childv, writerv>>

\* client.rs:183-214  what send_request returns, from what ended its wait
SendRequestResult(c) ==
    CASE chan[c].st = "sendfail" -> Err("TransportError")
      [] chan[c].st = "timeout" -> Err("TimeoutError")
      [] chan[c].st = "canceled" -> Err("InternalError")
      [] chan[c].st = "closed" -> Err("ConnectionClosed")
      [] chan[c].st = "resp" ->
            IF chan[c].m.body = "error" THEN Err("ProtocolError")
            ELSE IF chan[c].m.body = "result" THEN Ok(chan[c].m.val)
            ELSE Err("ProtocolError")

\* send_request has stopped waiting
SendRequestEnded(c) ==
    cpc[c] = "sr_wait" /\ chan[c].st \notin {"none", "open"}

\* client.rs:96-98  call_tool returns what send_request returned
CallToolReturn(c) ==
    /\ ccall[c] = "call"
    /\ SendRequestEnded(c)
    /\ ClientReturn(c, SendRequestResult(c))
    /\ UNCHANGED <<mvars, xportv, standv, clientv, ccall, cn, chan, readerv, taskv, childv, writerv>>

\* client.rs:69-73  initialize(): an error is returned; a result is parsed
\* and stored in server_info
InitializeStore(c) ==
    /\ ccall[c] = "initialize"
    /\ SendRequestEnded(c)
    /\ IF SendRequestResult(c).st = "ok"
       THEN /\ server_info' = SendRequestResult(c).val
            /\ cpc' = [cpc EXCEPT ![c] = "init_notify"]
            /\ UNCHANGED cres
       ELSE /\ ClientReturn(c, SendRequestResult(c))
            /\ UNCHANGED server_info
    /\ UNCHANGED <<mvars, xportv, standv, next_id, pending, ccall, cn, chan, readerv, taskv, childv,
                   writerv>>

\* client.rs:76-78  the initialized notification, then Ok(server_info)
InitializeNotify(c) ==
    /\ cpc[c] = "init_notify"
    /\ TransportSendReady
    /\ IF TransportSendOk
       THEN /\ TransportSend(Notification("initialized"))
            /\ ClientReturn(c, Ok(chan[c].m.val))
       ELSE /\ ClientReturn(c, Err("TransportError"))
            /\ UNCHANGED <<writerv, childIn>>
    /\ UNCHANGED <<mvars, xportv, standv, clientv, ccall, cn, chan, readerv, taskv, child,
                   childState, childOut>>

\* client.rs:143  `send_request("shutdown").await?`: an error ends close()
CloseAfterShutdown(c) ==
    /\ ccall[c] = "close"
    /\ SendRequestEnded(c)
    /\ IF SendRequestResult(c).st = "ok"
       THEN cpc' = [cpc EXCEPT ![c] = "close_exit"] /\ UNCHANGED cres
       ELSE ClientReturn(c, SendRequestResult(c))
    /\ UNCHANGED <<mvars, xportv, standv, clientv, ccall, cn, chan, readerv, taskv, childv, writerv>>

\* The same without handing the notification to the transport.
CloseExitNotSent(c) ==
    /\ cpc[c] = "close_exit"
    /\ cpc' = [cpc EXCEPT ![c] = "close_signal"]
    /\ UNCHANGED <<mvars, xportv, standv, clientv, ccall, cn, chan, cres, readerv, taskv, childv,
                   writerv>>

\* client.rs:146  `send_notification("exit").await?`
CloseExit(c) ==
    /\ cpc[c] = "close_exit"
    /\ TransportSendReady
    /\ IF TransportSendOk
       THEN /\ TransportSend(Notification("exit"))
            /\ cpc' = [cpc EXCEPT ![c] = "close_signal"]
            /\ UNCHANGED cres
       ELSE /\ ClientReturn(c, Err("TransportError"))
            /\ UNCHANGED <<writerv, childIn>>
    /\ UNCHANGED <<mvars, xportv, standv, clientv, ccall, cn, chan, readerv, taskv, child,
                   childState, childOut>>

\* The same with the failed send of the signal handed to the caller.
CloseSignalFailsWhenGone(c) ==
    /\ cpc[c] = "close_signal"
    /\ ~(talive /\ shutdownq = 1)
    /\ IF talive
       THEN /\ shutdownq' = 1
            /\ cpc' = [cpc EXCEPT ![c] = "close_kill"]
            /\ UNCHANGED cres
       ELSE /\ ClientReturn(c, Err("TransportError"))
            /\ UNCHANGED shutdownq
    /\ UNCHANGED <<mvars, xportv, standv, clientv, ccall, cn, chan, readerv, talive, receivers,
                   childv, writerv>>

\* client.rs:149 and transport.rs:204-208, 372-376  transport.close(): the shutdown
\* signal; a full channel suspends the sender, a dropped receiver is logged
CloseSignal(c) ==
    /\ cpc[c] = "close_signal"
    /\ ~(talive /\ shutdownq = 1)
    /\ shutdownq' = IF talive THEN 1 ELSE shutdownq
    /\ cpc' = [cpc EXCEPT ![c] = "close_kill"]
    /\ UNCHANGED <<mvars, xportv, standv, clientv, ccall, cn, chan, cres, readerv, talive, receivers,
                   childv, writerv>>

\* The same with the child left in the mutex.
KillChildKeepsHandle ==
    /\ child' = child
    /\ childState' = IF child THEN "dead" ELSE childState
    /\ childIn' = IF child THEN {} ELSE childIn

\* transport.rs:149-158, 212-221  guard.take() and `kill <pid>`: the first
\* taker ends the child (what a dead child had read is of no use any more)
KillChild ==
    /\ child' = FALSE
    /\ childState' = IF child THEN "dead" ELSE childState
    /\ childIn' = IF child THEN {} ELSE childIn

\* transport.rs:210-227  the blocking task takes the child out of the mutex
\* and kills it; close() returns Ok
CloseKill(c) ==
    /\ cpc[c] = "close_kill"
    /\ KillChild
    /\ ClientReturn(c, Ok(<<"closed", 0>>))
    /\ UNCHANGED <<mvars, xportv, standv, clientv, ccall, cn, chan, readerv, taskv, childOut, writerv>>

\* A task calls Transport::close() itself, as test_connection's client
\* does through McpClient::close (transport.rs:204, 372).
TransportCloseCall(c) ==
    /\ cpc[c] = "idle"
    /\ ccall' = [ccall EXCEPT ![c] = "transport.close"]
    /\ cpc' = [cpc EXCEPT ![c] = "close_signal"]
    /\ UNCHANGED <<mvars, xportv, standv, clientv, cn, chan, cres, readerv, taskv, childv,
                   writerv>>

\* client.rs:186  the caller drops the future of its call while it waits at
\* `timeout(REQUEST_TIMEOUT, rx).await`: the receiving end of the oneshot
\* goes with the future and nothing else of send_request runs; the caller
\* has no result
SendRequestCancel(c) ==
    /\ cpc[c] = "sr_wait"
    /\ chan[c].st = "open"
    /\ chan' = [chan EXCEPT ![c] = Chan("dropped", NoMsg)]
    /\ ClientReturn(c, NoResult)
    /\ UNCHANGED <<mvars, xportv, standv, next_id, pending, server_info, ccall, cn,
                   readerv, taskv, childv, writerv>>

\* the caller has taken the result of the method it called
ClientDone(c) ==
    /\ cpc[c] = "done"
    /\ cpc' = [cpc EXCEPT ![c] = "idle"]
    /\ ccall' = [ccall EXCEPT ![c] = "none"]
    /\ cn' = [cn EXCEPT ![c] = 0]
    /\ chan' = [chan EXCEPT ![c] = Chan("none", NoMsg)]
    /\ cres' = [cres EXCEPT ![c] = NoResult]
    /\ UNCHANGED <<mvars, xportv, standv, clientv, readerv, taskv, childv, writerv>>

(********************** the client's reader task ***************************)
\* the oneshot sender that belongs to the receive() call now waiting is
\* marked "L" in receivers; the sender of a receive() call that has
\* timed out (its receiver is dropped) is marked "S"
MarkStale(q) == [i \in 1..Len(q) |-> "S"]

HasLive(q) == \E i \in 1..Len(q) : q[i] = "L"

\* client.rs:239 and transport.rs:189-196 (stdio), 359-366 (SSE)
\* receive(): the oneshot sender goes into receive_tx for the transport's
\* reader task to push onto `receivers`; with that task gone the call fails
\* with TransportError, which the loop logs before it calls receive() again.
\* On the SSE transport the push is a step of its own (SsePush).
ReaderReceive ==
    /\ rpc = "loop"
    /\ IF talive
       THEN /\ IF tkind = "sse"
               THEN recvq' = Append(recvq, "L") /\ UNCHANGED receivers
               ELSE receivers' = Append(receivers, "L") /\ UNCHANGED recvq
            /\ rchan' = Chan("open", NoMsg)
            /\ rpc' = "wait"
            /\ rlast' = "none"
       ELSE /\ rlast' = "TransportError"
            /\ UNCHANGED <<receivers, recvq, rchan, rpc>>
    /\ UNCHANGED <<mvars, standv, tkind, inputcap, retry_delay, conn, sent, clientv, callerv, talive,
                   shutdownq, childv, writerv>>

\* transport.rs:199-200  TRANSPORT_TIMEOUT expires: TimeoutError, which the
\* loop logs; the sender stays where it is
ReaderReceiveTimeout ==
    /\ rpc = "wait"
    /\ rchan.st = "open"
    /\ Len(receivers) + Len(recvq) <= MaxStale
    /\ receivers' = MarkStale(receivers)
    /\ recvq' = MarkStale(recvq)
    /\ rchan' = Chan("none", NoMsg)
    /\ rlast' = "TimeoutError"
    /\ rpc' = "loop"
    /\ UNCHANGED <<mvars, standv, tkind, inputcap, retry_delay, conn, sent, clientv, callerv, talive,
                   shutdownq, childv, writerv>>

\* client.rs:244-264  the entries of pending under the response's id
ReaderDeliverTo(m) ==
    IF ResponseKey(m) = "invalid" THEN {} ELSE PendingEntry(pending, ResponseKey(m))

\* The same, completing whichever entry comes first instead of the one
\* whose key is the response's id.
ReaderDeliverToAny(m) ==
    IF pending = {} THEN {}
    ELSE {CHOOSE e \in pending : \A o \in pending : e.n <= o.n}

\* client.rs:253-264  the entry the reader takes out of pending for response m
ReaderTakes(m) == ReaderDeliverTo(m)

\* The same, the task ending when no entry has the response's id.
ReaderHandleStopsOnUnknown ==
    /\ rpc = "wait"
    /\ rchan.st = "msg"
    /\ LET m == rchan.m
           taken == IF m.kind = "resp" THEN ReaderTakes(m) ELSE {}
       IN  /\ pending' = pending \ taken
           /\ chan' = [c \in Callers |->
                         IF \E e \in taken : e.caller = c /\ Waits(e)
                         THEN Chan("resp", m)
                         ELSE chan[c]]
           /\ rpc' = IF m.kind = "resp" /\ taken = {} THEN "exited" ELSE "loop"
    /\ rchan' = Chan("none", NoMsg)
    /\ UNCHANGED <<mvars, xportv, standv, next_id, server_info, cpc, ccall, cn, cres, rlast,
                   taskv, childv, writerv>>

\* client.rs:240-283  a message: a response completes the pending request
\* with its id; anything else is ignored
ReaderHandle ==
    /\ rpc = "wait"
    /\ rchan.st = "msg"
    /\ LET m == rchan.m
           taken == IF m.kind = "resp" THEN ReaderTakes(m) ELSE {}
       IN  /\ pending' = pending \ taken
           /\ chan' = [c \in Callers |->
                         IF \E e \in taken : e.caller = c /\ Waits(e)
                         THEN Chan("resp", m)
                         ELSE chan[c]]
    /\ rchan' = Chan("none", NoMsg)
    /\ rpc' = "loop"
    /\ UNCHANGED <<mvars, xportv, standv, next_id, server_info, cpc, ccall, cn, cres, rlast,
                   taskv, childv, writerv>>

\* client.rs:284-302 and transport.rs:201  the oneshot sender was dropped:
\* ConnectionClosed; every pending request is completed with it and the
\* task ends
ReaderClosed ==
    /\ rpc = "wait"
    /\ rchan.st = "canceled"
    /\ pending' = {}
    /\ chan' = [c \in Callers |->
                  IF \E e \in pending : e.caller = c /\ Waits(e)
                  THEN Chan("closed", NoMsg)
                  ELSE chan[c]]
    /\ rchan' = Chan("none", NoMsg)
    /\ rlast' = "ConnectionClosed"
    /\ rpc' = "exited"
    /\ UNCHANGED <<mvars, xportv, standv, next_id, server_info, cpc, ccall, cn, cres, taskv,
                   childv, writerv>>

(*********** StdioTransport / SseTransport: the reader task ****************)
\* transport.rs:145-160 (stdio), 314-315 (SSE)  the loop is left: the
\* task's locals (receivers, receive_rx, shutdown_rx, the stdout reader or
\* the event stream) are dropped, which cancels the oneshot of a waiting
\* receive(); the stdio task also kills the child (an SseTransport holds
\* no child, and KillChild finds none)
TaskExit ==
    /\ talive' = FALSE
    /\ rchan' = IF HasLive(receivers \o recvq) THEN Chan("canceled", NoMsg)
              ELSE rchan
    /\ receivers' = <<>>
    /\ recvq' = <<>>
    /\ conn' = "none"
    /\ shutdownq' = 0
    /\ childOut' = <<>>
    /\ KillChild
    /\ UNCHANGED <<standv, tkind, inputcap, retry_delay, sent>>

\* transport.rs:97-99 (stdio), 260-262 (SSE)
TaskShutdown ==
    /\ talive
    /\ shutdownq = 1
    /\ TaskExit
    /\ UNCHANGED <<mvars, clientv, callerv, rpc, rlast, writerv>>

\* transport.rs:102-126  a line of the child's stdout.  The sender of the
\* receive() call now waiting is in the Vec `receivers`, or still in the
\* receive_rx channel when select! takes the line first (inchan).  The
\* line goes to the sender popped off the END of the Vec; with the Vec
\* empty it is sent into message_tx, whose receiving end (_message_rx,
\* line 66) was dropped when new() returned, so the send fails and the loop
\* is left.
TaskReadLine ==
    /\ talive
    /\ tkind = "stdio"
    /\ childOut # <<>>
    /\ \E inchan \in IF HasLive(receivers) THEN BOOLEAN ELSE {FALSE} :
        LET vec == IF inchan THEN SubSeq(receivers, 1, Len(receivers) - 1)
                   ELSE receivers
        IN  IF vec # <<>>
            THEN /\ receivers' = SubSeq(vec, 1, Len(vec) - 1)
                                    \o (IF inchan THEN <<"L">> ELSE <<>>)
                 /\ rchan' = IF vec[Len(vec)] = "L"
                             THEN Chan("msg", Head(childOut)) ELSE rchan
                 /\ childOut' = Tail(childOut)
                 /\ UNCHANGED <<talive, shutdownq, child, childState, childIn,
                                xportv, standv>>
            ELSE TaskExit
    /\ UNCHANGED <<mvars, clientv, callerv, rpc, rlast, writerv>>

\* transport.rs:127-130  EOF on the child's stdout
TaskEof ==
    /\ talive
    /\ tkind = "stdio"
    /\ childOut = <<>>
    /\ childState = "dead"
    /\ TaskExit
    /\ UNCHANGED <<mvars, clientv, callerv, rpc, rlast, writerv>>

(******************* SseTransport: the reader task *************************)
\* transport.rs:264-267  select! takes a receive request out of receive_rx
\* and pushes it onto `receivers`.  The branch that was connecting or
\* reading the event stream (269-312) is dropped with it: the stream is
\* gone, the events the server had written to it are lost, and the next
\* turn of the loop connects again.
SsePush ==
    /\ talive
    /\ tkind = "sse"
    /\ recvq # <<>>
    /\ receivers' = Append(receivers, Head(recvq))
    /\ recvq' = Tail(recvq)
    /\ conn' = "none"
    /\ childOut' = <<>>
    /\ UNCHANGED <<mvars, standv, tkind, inputcap, retry_delay, sent, clientv, callerv, readerv, talive,
                   shutdownq, child, childState, childIn, writerv>>

\* transport.rs:258-259, 269-270  a poll of select! begins the connect
\* block: the GET is sent.  select! polls its branches in random order, so
\* this can happen with a shutdown signal or a receive request waiting.
SseGet ==
    /\ talive
    /\ tkind = "sse"
    /\ conn = "none"
    /\ conn' = "get"
    /\ UNCHANGED <<mvars, standv, tkind, inputcap, retry_delay, recvq, sent, clientv,
                   callerv, readerv, taskv, childv, writerv>>

\* The same, retry_delay keeping its value.
SseConnectKeepsDelay ==
    /\ talive
    /\ tkind = "sse"
    /\ conn = "get"
    /\ childState = "running"
    /\ conn' = "open"
    /\ UNCHANGED <<mvars, standv, tkind, inputcap, retry_delay, recvq, sent, clientv,
                   callerv, readerv, taskv, childv, writerv>>

\* transport.rs:270-271, 280-283  the server answers the GET: retry_delay
\* is reset and the event stream is read
SseConnect ==
    /\ talive
    /\ tkind = "sse"
    /\ conn = "get"
    /\ childState = "running"
    /\ conn' = "open"
    /\ retry_delay' = InitialRetryDelay
    /\ UNCHANGED <<mvars, standv, tkind, inputcap, recvq, sent, clientv, callerv, readerv,
                   taskv, childv, writerv>>

\* transport.rs:272-274  the GET fails: the task sleeps for retry_delay
SseConnectFails ==
    /\ talive
    /\ tkind = "sse"
    /\ conn = "get"
    /\ conn' = "sleep"
    /\ UNCHANGED <<mvars, standv, tkind, inputcap, retry_delay, recvq, sent, clientv,
                   callerv, readerv, taskv, childv, writerv>>

\* transport.rs:274-277, 309-311  the sleep is over: retry_delay is doubled,
\* up to max_retry_delay, the block ends and the loop starts a new one
SseRetry ==
    /\ talive
    /\ tkind = "sse"
    /\ conn = "sleep"
    /\ conn' = "none"
    /\ retry_delay' = IF retry_delay * 2 < MaxRetryDelay
                      THEN retry_delay * 2 ELSE MaxRetryDelay
    /\ UNCHANGED <<mvars, standv, tkind, inputcap, recvq, sent, clientv, callerv, readerv,
                   taskv, childv, writerv>>

\* transport.rs:286-301  an event of the stream: the message goes to the
\* sender popped off the end of `receivers`, whose receive() call may have
\* timed out; with `receivers` empty it goes nowhere
SseEvent ==
    /\ talive
    /\ tkind = "sse"
    /\ conn = "open"
    /\ childOut # <<>>
    /\ childOut' = Tail(childOut)
    /\ IF receivers # <<>>
       THEN /\ receivers' = SubSeq(receivers, 1, Len(receivers) - 1)
            /\ rchan' = IF receivers[Len(receivers)] = "L"
                        THEN Chan("msg", Head(childOut)) ELSE rchan
       ELSE UNCHANGED <<receivers, rchan>>
    /\ UNCHANGED <<mvars, xportv, standv, clientv, callerv, rpc, rlast, talive, shutdownq,
                   child, childState, childIn, writerv>>

\* transport.rs:286, 303-311  the stream ends (the server closed it, or it
\* broke), after the events written to it were read; the task sleeps for
\* retry_delay
SseStreamEnd ==
    /\ talive
    /\ tkind = "sse"
    /\ conn = "open"
    /\ childOut = <<>>
    /\ conn' = "sleep"
    /\ UNCHANGED <<mvars, standv, tkind, inputcap, retry_delay, recvq, sent, clientv, callerv, readerv,
                   taskv, childv, writerv>>

(***************** StdioTransport: the writer task *************************)
\* The same, taking the line queued last.
WriterWriteLast ==
    /\ walive
    /\ inputq # <<>>
    /\ IF childState = "running"
       THEN /\ inputq' = SubSeq(inputq, 1, Len(inputq) - 1)
            /\ childIn' = IF inputq[Len(inputq)].kind = "req"
                          THEN childIn \cup {inputq[Len(inputq)]} ELSE childIn
            /\ UNCHANGED walive
       ELSE /\ walive' = FALSE
            /\ inputq' = <<>>
            /\ UNCHANGED childIn
    /\ UNCHANGED <<mvars, xportv, standv, clientv, callerv, readerv, taskv, child, childState,
                   childOut, wire>>

\* transport.rs:77-85  the next queued line is written to the child's stdin;
\* a write error ends the task, which drops the queue
WriterWrite ==
    /\ walive
    /\ inputq # <<>>
    /\ IF childState = "running"
       THEN /\ inputq' = Tail(inputq)
            /\ childIn' = IF Head(inputq).kind = "req"
                          THEN childIn \cup {Head(inputq)} ELSE childIn
            /\ UNCHANGED walive
       ELSE /\ walive' = FALSE
            /\ inputq' = <<>>
            /\ UNCHANGED childIn
    /\ UNCHANGED <<mvars, xportv, standv, clientv, callerv, readerv, taskv, child, childState,
                   childOut, wire>>

(************************** the child process ******************************)
\* The MCP server at the other end answers a request it has read, in any
\* order, with a result or an error, echoing the id as a string or (when
\* idts allows it) as a number; it may also never answer.  An SSE server
\* writes its answers to the open event stream.
ServerReply(idts) ==
    /\ childState = "running"
    /\ tkind = "sse" => conn = "open"
    /\ \E q \in childIn, idt \in idts, body \in {"result", "error"} :
        /\ childIn' = childIn \ {q}
        /\ childOut' = Append(childOut,
              Response(idt, q.n, body,
                       IF body = "error" THEN <<"error", 0>>
                       ELSE IF q.method = "initialize" THEN InfoValue(q.n)
                       ELSE <<"value", q.n>>))
    /\ UNCHANGED <<mvars, xportv, standv, clientv, callerv, readerv, taskv, child, childState,
                   writerv>>

\* The server sends a message nobody asked for (a notification; the model
\* numbers them so that their order shows): a line on the child's stdout,
\* or an event on the open event stream.
ServerSends ==
    /\ childState = "running"
    /\ tkind = "sse" => conn = "open"
    /\ sent < MaxLines
    /\ sent' = sent + 1
    /\ childOut' = Append(childOut, ServerNotification(sent + 1))
    /\ UNCHANGED <<mvars, standv, tkind, inputcap, retry_delay, conn, recvq, clientv, callerv, readerv,
                   taskv, child, childState, childIn, writerv>>

\* the child ends on its own
ChildExits ==
    /\ childState = "running"
    /\ childState' = "dead"
    /\ childIn' = {}
    /\ UNCHANGED <<mvars, xportv, standv, clientv, callerv, readerv, taskv, child, childOut, writerv>>

(************************** test_connection ********************************)
\* server.rs:181-186  for an http(s) URL: SseTransport::new(url)?, then
\* McpClient::new on it, then initialize().  Task t runs test_connection,
\* caller c is its use of the temporary client.
TestConnectionCall(t, c) ==
    /\ mpc[t] = "idle"
    /\ cpc[c] = "idle"
    /\ next_id = 1
    /\ \E built \in BOOLEAN :
          IF built
          THEN /\ mpc' = [mpc EXCEPT ![t] = "tc_init"]
               /\ ccall' = [ccall EXCEPT ![c] = "initialize"]
               /\ Register(c)
               /\ UNCHANGED mres
          ELSE /\ Return(t, "err")
               /\ UNCHANGED <<next_id, pending, cpc, ccall, cn, chan>>
    /\ UNCHANGED <<servers, clients, slock, clock, mname, mcmd, mret, mclient,
                   nclients, xportv, standv, server_info, cres, readerv, taskv, childv,
                   writerv>>

\* server.rs:189-200  initialize() has returned: Ok gives true, Err gives
\* false; in both arms client.close() is called
TestConnectionClose(t, c) ==
    /\ mpc[t] = "tc_init"
    /\ cpc[c] = "done"
    /\ ccall[c] = "initialize"
    /\ mres' = [mres EXCEPT ![t] = IF cres[c].st = "ok" THEN "true" ELSE "false"]
    /\ mpc' = [mpc EXCEPT ![t] = "tc_close"]
    /\ ccall' = [ccall EXCEPT ![c] = "close"]
    /\ cres' = [cres EXCEPT ![c] = NoResult]
    /\ Register(c)
    /\ UNCHANGED <<servers, clients, slock, clock, mname, mcmd, mret, mclient,
                   nclients, xportv, standv, server_info, readerv, taskv, childv, writerv>>

\* server.rs:192-193, 197-199  `let _ = client.close().await`: whatever
\* close() returned, test_connection returns Ok(true) or Ok(false)
TestConnectionReturn(t, c) ==
    /\ mpc[t] = "tc_close"
    /\ cpc[c] = "done"
    /\ ccall[c] = "close"
    /\ mpc' = [mpc EXCEPT ![t] = "done"]
    /\ UNCHANGED <<servers, clients, slock, clock, mname, mcmd, mret, mres, mclient,
                   nclients, svars>>

(************************** discover_servers *******************************)
\* A bound: how many entries a scanned directory holds.
MaxEntries == 2

\* What the scan finds for one directory entry: its file name; whether
\* path.is_file() holds; what tokio::fs::metadata gives ("exec": a mode
\* with an execute bit, "noexec": one without, "err": an I/O error, as when
\* the file goes away after is_file()); and which probe spawns ("help":
\* `path --help`, "h": only `path -h`, "none": neither).
DirEntries ==
    [name : {"a", "b"}, file : BOOLEAN, meta : {"exec", "noexec", "err"},
     probe : {"help", "h", "none"}]

\* sequences over S of length 0 .. n
SeqUpTo(S, n) == UNION {[1..k -> S] : k \in 0..n}

\* A directory: whether read_dir and next_entry succeed, and its entries.
Directories == [readable : BOOLEAN, entries : SeqUpTo(DirEntries, MaxEntries)]

\* server.rs:202-224  test_connection on a local command: true when the
\* command spawns with --help or, failing that, with -h; never an error
TestConnectionLocal(e) == Ok(e.probe = "help" \/ e.probe = "h")

\* server.rs:318-324  the config made for an entry that passed
DiscoveredConfig(e) == [name |-> e.name, command |-> <<"dir/", e.name>>]

\* server.rs:289-327  the loop over the collected paths
RECURSIVE DiscoverEntries(_, _)
DiscoverEntries(paths, configs) ==
    IF paths = <<>> THEN Ok(configs)
    ELSE LET e == Head(paths) IN
         IF ~e.file THEN DiscoverEntries(Tail(paths), configs)
         ELSE IF e.meta = "err" THEN Err("Io")
         ELSE IF e.meta = "noexec" THEN DiscoverEntries(Tail(paths), configs)
         ELSE IF TestConnectionLocal(e).st = "err" THEN TestConnectionLocal(e)
         ELSE IF TestConnectionLocal(e).val
              THEN DiscoverEntries(Tail(paths), Append(configs, DiscoveredConfig(e)))
              ELSE DiscoverEntries(Tail(paths), configs)

\* server.rs:276-332  discover_servers(dir)
discover_servers(dir) ==
    IF ~dir.readable THEN Err("Io") ELSE DiscoverEntries(dir.entries, <<>>)

\* The same with every config found registered at once.
DiscoverServersRegisters ==
    /\ ret.st = "none"
    /\ ret' = discover_servers(arg)
    /\ servers' = IF ret'.st = "ok"
                  THEN MapExtend(servers,
                          [n \in {ret'.val[i].name : i \in 1..Len(ret'.val)} |->
                              McpServerConfig(StdioCommand)])
                  ELSE servers
    /\ UNCHANGED <<clients, slock, clock, mpc, mname, mcmd, mret, mres, mclient,
                   nclients, clientv, callerv, readerv, taskv, childv, writerv,
                   xportv, arg>>

\* discover_servers is called on the directory `arg`
DiscoverServersCall ==
    /\ ret.st = "none"
    /\ ret' = discover_servers(arg)
    /\ UNCHANGED <<mvars, clientv, callerv, readerv, taskv, childv, writerv, xportv,
                   arg>>


(****************** save_default_config / load_default_config **************)
\* server.rs:13-21  an McpServerConfig with all its fields, registered
\* under the name n (register_server and load_from_file both keep the key
\* equal to the config's name)
FullConfigs(n) ==
    [name : {n}, command : Commands, args : {<<>>, <<"-v">>},
     env : {<<>>, [k \in {"KEY"} |-> "v"]}, process : BOOLEAN]

\* the values the `servers` map can have
ServerMaps ==
    UNION { {m \in [D -> UNION {FullConfigs(n) : n \in D}] :
                \A n \in D : m[n].name = n} : D \in SUBSET Names }

\* What one save-then-load run is given: the manager's servers, whether the
\* manager is emptied between the save and the load, and whether the file
\* at MCP_CONFIG_PATH can be written and read.
SaveLoadRuns ==
    [servers : ServerMaps, emptied : BOOLEAN, io : {"ok", "nowrite", "noread"}]

\* the same text, with no "env" member in the objects
ConfigJsonSkipsEnv(held) ==
    [n \in DOMAIN held |->
        [name |-> held[n].name, command |-> held[n].command,
         args |-> held[n].args]]

\* server.rs:13-21, 244  serde_json::to_string_pretty(&*servers): an object
\* with one member per key, the config's fields without `process`
\* (#[serde(skip)])
ConfigJson(held) ==
    [n \in DOMAIN held |->
        [name |-> held[n].name, command |-> held[n].command,
         args |-> held[n].args, env |-> held[n].env]]

\* server.rs:13-21, 230  serde_json::from_str: `env` defaults to the empty
\* map when the member is missing, `process` is always None
ConfigParse(json) ==
    [n \in DOMAIN json |->
        [name |-> json[n].name, command |-> json[n].command,
         args |-> json[n].args,
         env |-> IF "env" \in DOMAIN json[n] THEN json[n].env ELSE <<>>,
         process |-> FALSE]]

\* server.rs:242-247  save_to_file
save_to_file(held, io) ==
    IF io = "nowrite" THEN Err("Io") ELSE Ok(ConfigJson(held))

\* server.rs:228-239  load_from_file: the servers map after it, or the error
load_from_file(held, content, io) ==
    IF io = "noread" THEN Err("Io")
    ELSE LET configs == ConfigParse(content) IN
         Ok([n \in DOMAIN held \cup DOMAIN configs |->
                IF n \in DOMAIN configs
                THEN [configs[n] EXCEPT !.name = n]
                ELSE held[n]])

\* save_default_config, then (on an emptied manager, or on the same one)
\* load_default_config, each with `?`: the servers map at the end
SaveThenLoad(run) ==
    LET saved == save_to_file(run.servers, run.io) IN
    IF saved.st = "err" THEN saved
    ELSE load_from_file(IF run.emptied THEN <<>> ELSE run.servers,
                        saved.val, run.io)

\* the two operations are run on `arg`
SaveLoadCall ==
    /\ ret.st = "none"
    /\ ret' = SaveThenLoad(arg)
    /\ UNCHANGED <<mvars, clientv, callerv, readerv, taskv, childv, writerv, xportv,
                   arg>>

(********************** SseTransport::send: the POST url *******************)
\* A bound: how many characters a base URL has at most.
MaxUrlLen == 8

\* Strings are sequences of characters; the base URLs are those over "/",
\* "s" and "e".
UrlChars == {"/", "s", "e"}
Urls == SeqUpTo(UrlChars, MaxUrlLen)

SsePath == <<"/", "s", "s", "e">>
MessagesPath == <<"/", "m", "e", "s", "s", "a", "g", "e", "s">>

\* str::starts_with and str::ends_with for a string pattern
str_starts_with(s, pat) == Len(s) >= Len(pat) /\ SubSeq(s, 1, Len(pat)) = pat
ends_with(s, pat) ==
    Len(s) >= Len(pat) /\ SubSeq(s, Len(s) - Len(pat) + 1, Len(s)) = pat

\* str::replace: every non-overlapping match of `from`, left to right
RECURSIVE replace(_, _, _)
replace(s, from, to) ==
    IF s = <<>> THEN <<>>
    ELSE IF str_starts_with(s, from)
         THEN to \o replace(SubSeq(s, Len(from) + 1, Len(s)), from, to)
         ELSE <<Head(s)>> \o replace(Tail(s), from, to)

\* str::trim_end_matches for a character
RECURSIVE trim_end_matches(_, _)
trim_end_matches(s, ch) ==
    IF s # <<>> /\ s[Len(s)] = ch
    THEN trim_end_matches(SubSeq(s, 1, Len(s) - 1), ch)
    ELSE s

\* transport.rs:334-339  the endpoint of the POST requests
post_url(base_url) ==
    IF ends_with(base_url, SsePath)
    THEN replace(base_url, SsePath, MessagesPath)
    ELSE trim_end_matches(base_url, "/") \o MessagesPath

\* send() derives the endpoint from the base URL `arg`
PostUrlCall ==
    /\ ret.st = "none"
    /\ ret' = Ok(post_url(arg))
    /\ UNCHANGED <<mvars, clientv, callerv, readerv, taskv, childv, writerv, xportv,
                   arg>>

(********************** decoding a JSON-RPC envelope ***********************)
\* An inbound JSON object, by what the decoder looks at: for each member
\* whether it is missing, and else the kind of its value.  "other" is a
\* value the member's Rust type does not take (a number for a String, a
\* string for the error object).  Members the structs do not name are
\* ignored by serde and left out here.
Envelopes ==
    [jsonrpc : {"missing", "string", "other"},
     id      : {"missing", "null", "value"},
     method  : {"missing", "string", "other"},
     params  : {"missing", "value"},
     result  : {"missing", "null", "value"},
     error   : {"missing", "null", "object", "other"}]

\* a member of type String: it must be there and be a string
StringMember(v) == v = "string"
\* a member of type serde_json::Value: it must be there (null is a Value)
ValueMember(v) == v # "missing"
\* a member of type Option<T>: missing and null give None
OptionMember(v) == v # "other"

\* types.rs:16-41  whether the object deserializes as the struct of a variant
DecodesAs(variant, e) ==
    CASE variant = "Request" ->
            StringMember(e.jsonrpc) /\ ValueMember(e.id) /\ StringMember(e.method)
              /\ OptionMember(e.params)
      [] variant = "Response" ->
            StringMember(e.jsonrpc) /\ ValueMember(e.id)
              /\ OptionMember(e.result) /\ OptionMember(e.error)
      [] variant = "Notification" ->
            StringMember(e.jsonrpc) /\ StringMember(e.method)
              /\ OptionMember(e.params)

\* the same variants with Response declared first
VariantsResponseFirst == <<"Response", "Request", "Notification">>

\* types.rs:10-14  the variants of JsonRpcMessage in the order declared
Variants == <<"Request", "Response", "Notification">>

\* types.rs:8-9  #[serde(untagged)]: the first variant, in the order
\* declared, that the object deserializes as; an error when there is none
RECURSIVE FirstVariant(_, _)
FirstVariant(vs, e) ==
    IF vs = <<>> THEN Err("Parse")
    ELSE IF DecodesAs(Head(vs), e) THEN Ok(Head(vs))
    ELSE FirstVariant(Tail(vs), e)

\* transport.rs:108, 289  serde_json::from_str::<JsonRpcMessage>
DecodeMessage(e) == FirstVariant(Variants, e)

\* the envelope `arg` is decoded
DecodeCall ==
    /\ ret.st = "none"
    /\ ret' = DecodeMessage(arg)
    /\ UNCHANGED <<mvars, clientv, callerv, readerv, taskv, childv, writerv, xportv,
                   arg>>
(***************************************************************************)
(* Part III.  Specifications                                               *)
(***************************************************************************)
vars == <<mvars, svars>>

Init == MgrInit /\ SessInit /\ NoCall

\* send_request, whichever method runs it
SendRequestRun(c) ==
    \/ SendRequestSend(c)
    \/ SendRequestTimeout(c)

\* the client's reader task
ReaderRun ==
    \/ ReaderReceive
    \/ ReaderHandle
    \/ ReaderClosed

\* the transport's tasks, without the shutdown signal of close()
TransportRun ==
    \/ TaskReadLine
    \/ TaskEof
    \/ WriterWrite

\* Request traffic: the callers run call_tool concurrently; the server
\* echoes ids as strings or as numbers; receive() calls may time out.
CallNext ==
    \/ \E c \in Callers :
          \/ CallToolCall(c)
          \/ SendRequestRun(c)
          \/ CallToolReturn(c)
          \/ ClientDone(c)
    \/ ReaderRun
    \/ ReaderReceiveTimeout
    \/ TransportRun
    \/ ServerReply({"str", "num"})
    \/ ChildExits

Spec == Init /\ [][CallNext]_vars

\* Request traffic in which a caller may also drop its call while it waits.
CancelNext ==
    \/ CallNext
    \/ \E c \in Callers : SendRequestCancel(c)

CancelSpec == Init /\ [][CancelNext]_vars

\* The handshake: the callers run initialize() concurrently.
InitNext ==
    \/ \E c \in Callers :
          \/ InitializeCall(c)
          \/ SendRequestRun(c)
          \/ InitializeStore(c)
          \/ InitializeNotify(c)
          \/ ClientDone(c)
    \/ ReaderRun
    \/ TransportRun
    \/ ServerReply({"str"})
    \/ ChildExits

InitSpec == Init /\ [][InitNext]_vars

\* Shutdown: the callers run call_tool and close() concurrently.
CloseRun(c) ==
    \/ CloseAfterShutdown(c)
    \/ CloseExit(c)
    \/ CloseSignal(c)
    \/ CloseKill(c)

CloseNext ==
    \/ \E c \in Callers :
          \/ CallToolCall(c)
          \/ CloseCall(c)
          \/ SendRequestRun(c)
          \/ CallToolReturn(c)
          \/ CloseRun(c)
          \/ ClientDone(c)
    \/ ReaderRun
    \/ TransportRun
    \/ TaskShutdown
    \/ ServerReply({"str"})
    \/ ChildExits

CloseSpec == Init /\ [][CloseNext]_vars

\* The tokio runtime runs every task that can run: the spawned reader,
\* transport and writer tasks go on, a blocked call goes on once what it
\* awaits is there, and a deadline that is waited for expires.  A caller
\* need not call anything, and the child need not answer or exit.
CloseFairSpec ==
    /\ CloseSpec
    /\ WF_vars(ReaderRun)
    /\ WF_vars(TransportRun)
    /\ WF_vars(TaskShutdown)
    /\ \A c \in Callers :
          WF_vars(SendRequestRun(c) \/ CallToolReturn(c) \/ CloseRun(c))

\* The writer queue: the callers run call_tool concurrently on a stdio
\* transport whose queue holds 1 .. InputCap lines; the writer task
\* writes, the child may exit.  Requests end by their deadline.
SendInit ==
    /\ MgrInit
    /\ SessStart
    /\ tkind = "stdio"
    /\ child = TRUE
    /\ inputcap \in 1..InputCap
    /\ NoCall

SendNext ==
    \/ \E c \in Callers :
          \/ CallToolCall(c)
          \/ SendRequestRun(c)
          \/ CallToolReturn(c)
          \/ ClientDone(c)
    \/ WriterWrite
    \/ ChildExits

SendSpec == SendInit /\ [][SendNext]_vars

\* A transport on its own, stdio or SSE: tasks call close(), the client's
\* reader task calls receive(), the server sends messages of its own
\* accord and may go away.
TransportInit ==
    /\ MgrInit
    /\ SessStart
    /\ tkind \in {"stdio", "sse"}
    /\ child = (tkind = "stdio")
    /\ inputcap = InputCap
    /\ NoCall

TransportCloseRun(c) == CloseSignal(c) \/ CloseKill(c)

SseRun ==
    \/ SsePush
    \/ SseGet
    \/ SseConnect
    \/ SseConnectFails
    \/ SseEvent
    \/ SseStreamEnd
    \/ SseRetry

TransportNext ==
    \/ \E c \in Callers :
          \/ TransportCloseCall(c)
          \/ TransportCloseRun(c)
          \/ ClientDone(c)
    \/ ReaderRun
    \/ ReaderReceiveTimeout
    \/ TaskShutdown
    \/ TaskReadLine
    \/ TaskEof
    \/ SseRun
    \/ ServerSends
    \/ ChildExits

TransportSpec == TransportInit /\ [][TransportNext]_vars

\* The runtime keeps polling the transport's reader task and every task
\* inside close(), and the timer of a sleep fires.
TransportFairSpec ==
    /\ TransportSpec
    /\ WF_vars(TaskShutdown)
    /\ WF_vars(TaskEof)
    /\ WF_vars(SseGet)
    /\ WF_vars(SseRetry)
    /\ \A c \in Callers : WF_vars(TransportCloseRun(c))

\* test_connection on an http URL: a temporary client on an SSE transport
\* runs initialize() and close(); the server may answer, stay silent or go
\* away.
TestInit ==
    /\ MgrInit
    /\ SessStart
    /\ tkind = "sse"
    /\ child = FALSE
    /\ inputcap = InputCap
    /\ NoCall

TestNext ==
    \/ \E t \in Tasks, c \in Callers :
          \/ TestConnectionCall(t, c)
          \/ TestConnectionClose(t, c)
          \/ TestConnectionReturn(t, c)
    \/ \E c \in Callers :
          \/ SendRequestRun(c)
          \/ InitializeStore(c)
          \/ InitializeNotify(c)
          \/ CloseRun(c)
    \/ ReaderRun
    \/ ReaderReceiveTimeout
    \/ TaskShutdown
    \/ SseRun
    \/ ServerReply({"str"})
    \/ ChildExits

TestSpec == TestInit /\ [][TestNext]_vars

\* discover_servers run on a directory of up to MaxEntries entries.
DiscoverInit ==
    /\ MgrInit
    /\ SessInit
    /\ arg \in Directories
    /\ ret = NoResult

DiscoverSpec == DiscoverInit /\ [][DiscoverServersCall]_vars

\* save_default_config then load_default_config, MCP_CONFIG_PATH being set.
SaveLoadInit ==
    /\ MgrInit
    /\ SessInit
    /\ arg \in SaveLoadRuns
    /\ ret = NoResult

SaveLoadSpec == SaveLoadInit /\ [][SaveLoadCall]_vars

\* SseTransport::send deriving its endpoint, for every base URL of up to
\* MaxUrlLen characters.
PostUrlInit ==
    /\ MgrInit
    /\ SessInit
    /\ arg \in Urls
    /\ ret = NoResult

PostUrlSpec == PostUrlInit /\ [][PostUrlCall]_vars

\* The decoding of one inbound JSON object.
DecodeInit ==
    /\ MgrInit
    /\ SessInit
    /\ arg \in Envelopes
    /\ ret = NoResult

DecodeSpec == DecodeInit /\ [][DecodeCall]_vars

\* test_connection (on an http URL whose event endpoint answers) and
\* discover_servers, run by tasks of a manager whose registry is empty or
\* holds a config with a cached client.
ProbeRegistries ==
    { [servers |-> << >>, clients |-> << >>, nclients |-> 0],
      [servers |-> [n \in {"x"} |-> McpServerConfig(HttpCommand)],
       clients |-> [n \in {"x"} |-> 1], nclients |-> 1] }

\* the directories scanned: readable or not, with one entry that is a file
ProbeDirectories ==
    {d \in Directories : Len(d.entries) = 1 /\ d.entries[1].file
                            /\ d.entries[1].name = "a"}

ProbeInit ==
    /\ \E reg \in ProbeRegistries :
          /\ servers = reg.servers
          /\ clients = reg.clients
          /\ nclients = reg.nclients
    /\ slock = FreeLock
    /\ clock = FreeLock
    /\ mpc = [t \in Tasks |-> "idle"]
    /\ mname = [t \in Tasks |-> "x"]
    /\ mcmd = [t \in Tasks |-> StdioCommand]
    /\ mret = [t \in Tasks |-> "idle"]
    /\ mres = [t \in Tasks |-> "none"]
    /\ mclient = [t \in Tasks |-> 0]
    /\ SessStart
    /\ tkind = "sse"
    /\ child = FALSE
    /\ inputcap = InputCap
    /\ arg \in ProbeDirectories
    /\ ret = NoResult

ProbeNext ==
    \/ \E t \in Tasks, c \in Callers :
          \/ TestConnectionCall(t, c)
          \/ TestConnectionClose(t, c)
          \/ TestConnectionReturn(t, c)
    \/ \E c \in Callers :
          \/ SendRequestRun(c)
          \/ InitializeStore(c)
          \/ InitializeNotify(c)
          \/ CloseRun(c)
    \/ ReaderRun
    \/ TaskShutdown
    \/ SsePush
    \/ SseGet
    \/ SseConnect
    \/ SseEvent
    \/ ServerReply({"str"})
    \/ DiscoverServersCall

ProbeSpec == ProbeInit /\ [][ProbeNext]_vars

\* The manager: tasks calling the manager operations.
MgrSpec == Init /\ [][MgrNext]_vars

\* The runtime keeps polling every task that can make progress.
MgrFairSpec == MgrSpec /\ \A t \in Tasks : WF_vars(MgrRun(t))

\* One caller alone: the manager driven by a single task.
MgrSoloNext == MgrCall("t1") \/ MgrRun("t1")

MgrSoloFairSpec ==
    /\ Init
    /\ [][MgrSoloNext]_vars
    /\ WF_vars(MgrRun("t1"))

(***************************************************************************)
(* Properties of the manager                                               *)
(***************************************************************************)

\* get_client(name) is at the stdio branch: the name is registered, its
\* command is not an http(s) URL, and start_server(name) has been called
InStdioGetClient(t) ==
    /\ mret[t] = "gc_stdio"
    /\ mpc[t] = "start_w"
    /\ mname[t] \in DOMAIN servers
    /\ ~IsHttpCommand(servers[mname[t]].command)

\* C1: for a registered stdio config, get_client(name) eventually returns;
\* the call never blocks forever while ensuring the process is started.
C1_StdioGetClientReturns ==
    \A t \in Tasks : InStdioGetClient(t) ~> (mpc[t] = "done")

\* no task holds a guard of either registry lock
NoRegistryLockHeld == ~LockHeld(slock) /\ ~LockHeld(clock)

\* C2: in every state in which no task holds a registry lock, every name
\* that is a key of clients is also a key of servers.
C2_ClientsHaveConfigs ==
    NoRegistryLockHeld => DOMAIN clients \subseteq DOMAIN servers

\* a client is cached, no lock is held, and a task is back from an operation
C2_Witness ==
    /\ NoRegistryLockHeld
    /\ DOMAIN clients # {}
    /\ \E t \in Tasks : mpc[t] = "done" /\ mres[t] = "ok" /\ mclient[t] = 0

(***************************************************************************)
(* Properties of one client session                                        *)
(***************************************************************************)

\* C3: a caller is completed only with a response whose id is the id of
\* its own request, whatever the order in which the responses arrive.
C3_CompletedWithOwnResponse ==
    \A c \in Callers :
        chan[c].st = "resp" =>
            /\ chan[c].m.kind = "resp"
            /\ ResponseKey(chan[c].m) = ToDecimal(cn[c])

\* two requests in flight, and the later one is answered first
C3_Witness ==
    \E c, d \in Callers :
        /\ cn[c] = 2 /\ chan[c].st = "resp"
        /\ cn[d] = 1 /\ cpc[d] = "sr_wait" /\ chan[d].st = "open"

\* C4: pending holds at most one entry per key, and no entry for the id of
\* a request that was completed by a response or that timed out.
C4_PendingEntries ==
    /\ \A e1, e2 \in pending : e1.key = e2.key => e1 = e2
    /\ \A c \in Callers :
          chan[c].st \in {"resp", "timeout"} =>
              PendingEntry(pending, ToDecimal(cn[c])) = {}

\* one request has timed out, another one was completed by its response
C4_Witness ==
    \E c, d \in Callers :
        /\ chan[c].st = "timeout" /\ cn[c] # 0
        /\ chan[d].st = "resp" /\ cn[d] # 0

\* the transport's reader task is gone
TransportClosed == ~talive

\* C5: once the transport has closed, the client's reader task drains
\* pending and exits.
C5_ReaderDrainsAndExits ==
    TransportClosed ~> (rpc = "exited" /\ pending = {})

\* C6: the first id is 1, every request gets the id that follows the last
\* one issued, which is greater than every id in use, and the counter never
\* goes back, whatever became of the earlier requests.
C6_IdsIncreaseFromOne ==
    /\ next_id = 1
    /\ [][/\ next_id' >= next_id
          /\ \A c \in Callers :
                (cn'[c] # cn[c] /\ cn'[c] # 0) =>
                    /\ cn'[c] = next_id
                    /\ next_id' = next_id + 1
                    /\ \A d \in Callers : cn[d] < cn'[c]]_vars

\* request 1 has failed with a timeout and its caller is back; request 2
\* is registered and not sent yet
C6_Witness ==
    \E c, d \in Callers :
        /\ cn[c] = 1 /\ cpc[c] = "done" /\ cres[c] = Err("TimeoutError")
        /\ cn[d] = 2 /\ cpc[d] = "sr_send"

\* C7: a request whose deadline expires returns TimeoutError; whatever
\* timed out before, a response the reader gets completes the caller that
\* waits for its id, and no other caller (none, when the request with that
\* id has timed out); a caller completed by a result returns success.
C7_TimeoutLeavesSessionUsable ==
    /\ [](\A c \in Callers :
            /\ (cpc[c] = "done" /\ chan[c].st = "timeout")
                  => cres[c] = Err("TimeoutError")
            /\ (cpc[c] = "done" /\ chan[c].st = "resp"
                  /\ chan[c].m.body = "result") => cres[c].st = "ok")
    /\ [][(rpc = "wait" /\ rchan.st = "msg" /\ rchan.m.kind = "resp"
             /\ rpc' = "loop") =>
            \A c \in Callers :
                chan'[c] = IF /\ cpc[c] = "sr_wait"
                              /\ chan[c].st = "open"
                              /\ ToDecimal(cn[c]) = ResponseKey(rchan.m)
                           THEN Chan("resp", rchan.m)
                           ELSE chan[c]]_vars

\* request 1 has timed out and its caller is back with TimeoutError; its
\* late response reaches the reader while request 2 is in flight
C7_Witness ==
    \E c, d \in Callers :
        /\ cn[c] = 1 /\ cpc[c] = "done" /\ cres[c] = Err("TimeoutError")
        /\ cn[d] = 2 /\ cpc[d] = "sr_wait" /\ chan[d].st = "open"
        /\ rpc = "wait" /\ rchan.st = "msg" /\ rchan.m.id = 1

\* C8: server_info, once set, is never written again.
C8_ServerInfoWrittenOnce ==
    [][server_info # NoVal => server_info' = server_info]_vars

\* C9: when one initialize() call has returned a result and its request
\* is the only initialize request sent, a second initialize() call sends
\* nothing, issues no id, and returns the same result.
C9_SecondInitializeUsesCache ==
    [][\A c, d \in Callers :
          (/\ c # d
           /\ cpc[d] = "done" /\ ccall[d] = "initialize" /\ cres[d].st = "ok"
           /\ wire["initialize"] = 1
           /\ cpc[c] = "idle" /\ ccall'[c] = "initialize")
          => /\ wire' = wire
             /\ inputq' = inputq
             /\ next_id' = next_id
             /\ cpc'[c] = "done"
             /\ cres'[c] = cres[d]]_vars

\* both calls are back: the first one after its handshake, the second one
\* without having issued a request
C9_Witness ==
    \E c, d \in Callers :
        /\ cpc[d] = "done" /\ ccall[d] = "initialize" /\ cn[d] # 0
        /\ cpc[c] = "done" /\ ccall[c] = "initialize" /\ cn[c] = 0
        /\ cres[d].st = "ok" /\ cres[c] = cres[d]
        /\ wire["initialize"] = 1

\* C10: when the shutdown request of close() has ended, with a result or
\* with an error, close() goes on to the exit notification.
C10_CloseGoesOnAfterShutdown ==
    [][\A c \in Callers :
          (ccall[c] = "close" /\ cpc[c] = "sr_wait" /\ cpc'[c] # "sr_wait")
              => cpc'[c] = "close_exit"]_vars

(***************************************************************************)
(* Properties of close() and of the stdio transport                        *)
(***************************************************************************)

\* the shutdown request of c's close() has been answered with a result
ShutdownCompleted(c) ==
    /\ ccall[c] = "close"
    /\ chan[c].st = "resp"
    /\ chan[c].m.body = "result"
    /\ ResponseKey(chan[c].m) = ToDecimal(cn[c])

\* c's close() has handed over its exit notification
PastExit(c) ==
    \/ cpc[c] \in {"close_signal", "close_kill"}
    \/ cpc[c] = "done" /\ ccall[c] = "close" /\ cres[c].st = "ok"

\* C11: in close(), the exit notification is handed to the transport only
\* after the shutdown request has completed, and transport.close() is
\* called only after the exit notification has been handed over.
C11_CloseInOrder ==
    /\ [](\A c \in Callers :
            (cpc[c] \in {"close_exit", "close_signal", "close_kill"})
                => ShutdownCompleted(c))
    /\ [](Cardinality({c \in Callers : PastExit(c)}) <= wire["exit"])
    /\ [][/\ wire'["exit"] # wire["exit"] =>
                \E c \in Callers : cpc[c] = "close_exit" /\ ShutdownCompleted(c)
          /\ (shutdownq' = 1 /\ shutdownq = 0) =>
                \E c \in Callers : cpc[c] = "close_signal" /\ wire["exit"] > 0
         ]_vars

\* a close() has sent the shutdown signal and is about to kill the child
C11_Witness ==
    \E c \in Callers :
        cpc[c] = "close_kill" /\ wire["shutdown"] = 1 /\ wire["exit"] = 1

\* transport.close() has been called and has sent (or failed to send) its
\* shutdown signal
CloseCalled ==
    \E c \in Callers :
        \/ cpc[c] = "close_kill"
        \/ cpc[c] = "done" /\ ccall[c] = "close" /\ cres[c].st = "ok"

\* C13: after close() has been called on the transport, a receive() call
\* ends with ConnectionClosed or TimeoutError and with no other error.
C13_ReceiveAfterClose ==
    [][(CloseCalled /\ rlast' # rlast) =>
          rlast' \in {"none", "ConnectionClosed", "TimeoutError"}]_vars

\* C14: a line of the child's stdout that the transport reads is handed
\* to the waiting receive() call (it is the oldest unread line), and the
\* transport's reader task stays alive.
C14_LineReachesReceive ==
    [][(talive /\ childOut # <<>> /\ Len(childOut') < Len(childOut)) =>
            /\ talive'
            /\ rchan' = Chan("msg", Head(childOut))]_vars

(***************************************************************************)
(* Properties of the stdio writer queue                                    *)
(***************************************************************************)

\* the line of the request that caller c hands to transport.send
SendingLine(c) == Request(MethodOf(ccall[c]), cn[c])

\* C16: lines enter the writer queue at its end, one whole line per
\* accepted send(); the writer task hands the child the line at the head
\* of the queue and nothing else; lines leave the queue in no other way
\* while the writer task lives.
C16_WriterKeepsOrder ==
    [][\/ inputq' = inputq
       \/ \E c \in Callers :
             /\ cpc[c] = "sr_send"
             /\ inputq' = Append(inputq, SendingLine(c))
             /\ childIn' = childIn
       \/ /\ inputq # <<>>
          /\ inputq' = Tail(inputq)
          /\ childIn' = childIn \cup {Head(inputq)}
       \/ /\ ~walive'
          /\ inputq' = <<>>
          /\ childIn' = childIn]_vars

\* two callers' lines are queued, and the one accepted first (request 1)
\* is at the head
C16_Witness ==
    /\ Len(inputq) = 2
    /\ inputq[1].n = 1 /\ inputq[2].n = 2
    /\ walive /\ childState = "running"

\* C17: the writer queue never holds more lines than its capacity; while
\* it is full no send() is accepted, and nothing leaves it but the line
\* the writer task takes from its head.
C17_QueueBounded ==
    /\ [](Len(inputq) <= inputcap)
    /\ [][(Len(inputq) = inputcap /\ walive') =>
             /\ inputq' \in {inputq, Tail(inputq)}
             /\ \A c \in Callers :
                   (cpc[c] = "sr_send" /\ cpc'[c] # "sr_send") =>
                       inputq' = inputq /\ ~walive]_vars

\* the queue is full and a send() is suspended
C17_Witness ==
    /\ Len(inputq) = inputcap
    /\ walive
    /\ \E c \in Callers : cpc[c] = "sr_send" /\ ~TransportSendReady
(***************************************************************************)
(* Properties of the registry operations                                   *)
(***************************************************************************)

\* get_servers() (lines 270-273): what a call that is granted the servers
\* read lock in this state returns, a copy of every config, by name
GetServers == [n \in DOMAIN servers |-> ConfigClone(servers[n])]

\* get_servers() returns for n in the next state what it returns now
SameCopy(n) == n \in DOMAIN GetServers' /\ GetServers'[n] = GetServers[n]

\* the step is task t's, at place p of an operation on name n
StepAt(t, p, n) == mpc[t] = p /\ mpc'[t] # p /\ mname[t] = n

\* The files of the model hold http commands only (FileContents), so a
\* config with the stdio command is one that was passed to register_server.
Registered(n) == n \in DOMAIN servers /\ servers[n].command = StdioCommand

\* C18 as stated: a config passed to register_server is what get_servers()
\* returns for its name until unregister_server(name) removes it, whatever
\* other manager operations run in between.
C18_CopyUntilUnregister ==
    [][\A n \in Names :
         (servers' # servers /\ Registered(n)) =>
            \/ SameCopy(n)
            \/ \E t \in Tasks : StepAt(t, "unreg_s_w", n)]_vars

\* C18 amended: what get_servers() returns for a registered name changes
\* only in an insert of register_server(name), an insert of a loaded file
\* holding the name, or the removal of unregister_server(name); start_server,
\* stop_server and get_client leave it as it is.
C18_CopyUntilOverwritten ==
    [][\A n \in Names :
         (servers' # servers /\ n \in DOMAIN servers) =>
            \/ SameCopy(n)
            \/ \E t \in Tasks :
                  \/ StepAt(t, "unreg_s_w", n)
                  \/ StepAt(t, "reg_w", n)
                  \/ /\ mpc[t] = "load_w" /\ mpc'[t] # "load_w"
                     /\ n \in DOMAIN servers']_vars

\* a registered stdio config has had a child attached by start_server, a
\* stop_server call on it is under way, and get_servers() still returns
\* the config as it was registered
C18_Witness ==
    /\ Registered("x")
    /\ servers["x"].process
    /\ GetServers["x"] = McpServerConfig(StdioCommand)
    /\ \E t \in Tasks : mpc[t] = "stop_s_w" /\ mname[t] = "x" /\ mret[t] = "idle"

\* task t is inside unregister_server(mname[t]), from its call to its return
InUnregister(t) == mret[t] = "unreg" /\ mpc[t] # "done"

\* the places of stop_server
StopPlaces == {"stop_c_w", "stop_close", "stop_s_w"}

\* the step is one of task t
StepOf(t) == mpc'[t] # mpc[t]

\* C19: unregister_server(name) first runs stop_server(name) and then
\* removes name from servers and from clients, in that order; when it
\* returns it returns success and neither map has the key; a step of it
\* taken while the name is in neither map changes neither map.
C19_UnregisterRemovesBoth ==
    [][\A t \in Tasks :
         (InUnregister(t) /\ StepOf(t)) =>
            \* stop_server runs first, to its end, and removes no config
            /\ mpc[t] \in StopPlaces =>
                  /\ mpc'[t] \in StopPlaces \cup {"unreg"}
                  /\ DOMAIN servers' = DOMAIN servers
            /\ mpc'[t] = "unreg" => mpc[t] = "stop_s_w" /\ mres'[t] = "ok"
            \* then the config goes, then the client
            /\ mpc[t] = "unreg" => mpc'[t] = "unreg_s_w" /\ servers' = servers
            /\ mpc[t] = "unreg_s_w" =>
                  /\ mpc'[t] = "unreg_c_w"
                  /\ servers' = MapRemove(servers, mname[t])
                  /\ clients' = clients
            /\ mpc[t] = "unreg_c_w" =>
                  /\ mpc'[t] = "done"
                  /\ clients' = MapRemove(clients, mname[t])
            \* at the return: success, and the key is in neither map
            /\ mpc'[t] = "done" =>
                  /\ mres'[t] = "ok"
                  /\ mname[t] \notin DOMAIN servers'
                  /\ mname[t] \notin DOMAIN clients'
            \* a name in neither map: nothing changes
            /\ (mname[t] \notin DOMAIN servers /\ mname[t] \notin DOMAIN clients)
                  => servers' = servers /\ clients' = clients]_vars

\* unregister_server(name) has removed the config and is about to remove a
\* client that is cached under the name
C19_Witness ==
    \E t \in Tasks :
        /\ mpc[t] = "unreg_c_w"
        /\ mname[t] \in DOMAIN clients
        /\ mname[t] \notin DOMAIN servers

\* the entry of name m is the same in both states
SameEntry(m) ==
    /\ m \in DOMAIN servers <=> m \in DOMAIN servers'
    /\ m \in DOMAIN servers => servers'[m] = servers[m]

\* C20: register_server(config) changes only servers[config.name], which
\* afterwards holds the config: no process is attached to it, no client is
\* created, and clients and every other servers entry stay as they are.
C20_RegisterFrame ==
    [][\A t \in Tasks :
         (mpc[t] = "reg_w" /\ StepOf(t)) =>
            /\ mname[t] \in DOMAIN servers'
            /\ servers'[mname[t]].command = mcmd[t]
            /\ ~servers'[mname[t]].process
            /\ \A m \in Names \ {mname[t]} : SameEntry(m)
            /\ clients' = clients
            /\ nclients' = nclients
            /\ mres'[t] = "ok"]_vars

\* register_server(n, http command) has returned (only register_server
\* sets mcmd): n holds the config, another name is registered with its child
\* attached, and a client is cached
C20_Witness ==
    \E t \in Tasks :
        /\ mpc[t] = "done"
        /\ mcmd[t] = HttpCommand
        /\ mname[t] \in DOMAIN servers
        /\ servers[mname[t]] = McpServerConfig(HttpCommand)
        /\ \E m \in DOMAIN servers \ {mname[t]} : servers[m].process
        /\ DOMAIN clients # {}
(***************************************************************************)
(* Properties of the transports                                            *)
(***************************************************************************)

\* task c is inside Transport::close()
InTransportClose(c) == cpc[c] \in {"close_signal", "close_kill"}

\* the reader task has gone and the child has been taken out of its mutex
TransportShut == ~talive /\ ~child

\* everything a transport consists of, and what its receive() caller sees
transportv == <<taskv, childv, writerv, xportv, readerv>>

\* a receive() call is waiting on its oneshot
ReceiveWaits == rpc = "wait" /\ rchan.st = "open"

\* C12: on both transports every close() returns success, and returns (it
\* does not block for good); a close() step on a transport that is already
\* shut changes nothing; when the reader task acts on the shutdown signal,
\* a waiting receive() is cancelled, and a cancelled receive() returns
\* ConnectionClosed.
C12_CloseIdempotent ==
    /\ [][\A c \in Callers :
            (InTransportClose(c) /\ cpc'[c] # cpc[c]) =>
               /\ cpc'[c] = "done" => cres'[c].st = "ok"
               /\ TransportShut => transportv' = transportv]_vars
    /\ [][(talive /\ shutdownq = 1 /\ ~talive' /\ ReceiveWaits)
             => rchan'.st = "canceled"]_vars
    /\ [][(rchan.st = "canceled" /\ rchan' # rchan)
             => rlast' = "ConnectionClosed"]_vars
    /\ \A c \in Callers : InTransportClose(c) ~> (cpc[c] = "done")

\* two close() calls on an SSE transport have both returned Ok, and the
\* receive() that was waiting has returned ConnectionClosed
C12_Witness ==
    /\ tkind = "sse"
    /\ \A c \in Callers :
          cpc[c] = "done" /\ ccall[c] = "transport.close" /\ cres[c].st = "ok"
    /\ rpc = "exited"
    /\ rlast = "ConnectionClosed"

\* C15: on the SSE transport every event the server has sent is returned
\* by a receive() call, in the order sent (an event leaves the stream only
\* as the next message handed to the waiting receive()), and a receive()
\* call does not end an open event stream.
C15_SseDeliversEveryEvent ==
    [][(tkind = "sse" /\ talive') =>
          /\ childOut' # childOut /\ Len(childOut') <= Len(childOut) =>
                /\ childOut' = Tail(childOut)
                /\ rchan' = Chan("msg", Head(childOut))
          /\ conn = "open" => (conn' = "open" \/ recvq' = recvq)]_vars

\* the step begins a connection attempt: the reader task sends the GET
ConnectionAttempt == conn = "none" /\ conn' = "get"

\* the step is the end of a sleep of the reader task
SleepEnds == conn = "sleep" /\ conn' = "none" /\ talive' /\ receivers' = receivers

\* C30 as claimed, its last part: the SSE reader task begins no connection
\* attempt after close() was called, that is, while the signal close() has
\* sent waits in the shutdown channel or after it was taken.
C30_NoAttemptAfterClose ==
    [][ConnectionAttempt => talive /\ shutdownq = 0]_vars

\* C30: in the SSE reader task retry_delay always lies between 100 ms and
\* 5 s: it starts at 100 ms, is doubled and capped at 5 s at the end of each
\* sleep that follows a failed connection or the end of the stream, is reset
\* to 100 ms by every successful connection, and changes in no other step.
\* While the task has not taken a shutdown signal it goes on to a new
\* connection attempt after every failure, stream end or dropped connect
\* block; once it has taken the signal sent by close() it makes no attempt.
C30_RetryDelayBounded ==
    /\ [](/\ retry_delay \in InitialRetryDelay..MaxRetryDelay
          /\ ~talive => conn = "none")
    /\ [][/\ ConnectionAttempt => talive
          /\ retry_delay' =
                IF SleepEnds
                THEN (IF 2 * retry_delay <= MaxRetryDelay
                      THEN 2 * retry_delay ELSE MaxRetryDelay)
                ELSE IF conn = "get" /\ conn' = "open" THEN InitialRetryDelay
                ELSE retry_delay]_vars
    /\ (tkind = "sse" /\ talive /\ conn \in {"none", "sleep"})
          ~> (conn = "get" \/ ~talive)

C30_Witness ==
    /\ tkind = "sse"
    /\ talive
    /\ conn = "get"
    /\ retry_delay = MaxRetryDelay
    /\ shutdownq = 0
(***************************************************************************)
(* Properties of start_server, stop_server and get_client                  *)
(***************************************************************************)

\* a child is attached to the config registered under n
Attached(n) == n \in DOMAIN servers /\ servers[n].process

\* C21: start_server(name) on a config with a child attached spawns
\* nothing (the servers map stays as it is) and returns success; a child
\* is attached only by a start_server(name) step that found none attached,
\* so no sequence of start_server calls attaches a second one.
C21_StartOnce ==
    [][/\ \A t \in Tasks :
            (mpc[t] = "start_w" /\ StepOf(t) /\ Attached(mname[t])) =>
               /\ servers' = servers
               /\ mres'[t] = "ok"
       /\ \A n \in Names :
            (n \in DOMAIN servers' /\ servers'[n].process /\ ~Attached(n)) =>
               \E t \in Tasks :
                  /\ StepAt(t, "start_w", n)
                  /\ n \in DOMAIN servers
                  /\ mres'[t] = "ok"]_vars

\* one start_server(x) has attached a child and returned; a second task's
\* start_server(x) is waiting for the servers lock
C21_Witness ==
    /\ Attached("x")
    /\ \E t, u \in Tasks :
          /\ t # u
          /\ mpc[t] = "done" /\ mres[t] = "ok" /\ mname[t] = "x"
          /\ mpc[u] = "start_w" /\ mname[u] = "x" /\ mret[u] = "idle"

\* C22 as stated: when stop_server(name) returns, clients has no entry for
\* name, and servers[name], if registered, is still registered and has no
\* child attached.
C22_StopLeavesNoClient ==
    [][\A t \in Tasks :
         (mpc[t] = "stop_s_w" /\ mret[t] = "idle" /\ StepOf(t)) =>
            /\ mname[t] \notin DOMAIN clients'
            /\ DOMAIN servers' = DOMAIN servers
            /\ ~Attached(mname[t])']_vars

\* C22 amended: stop_server(name) removes the client cached under name and
\* closes it, then, whatever close() returned, kills and detaches the child
\* and returns success; the config stays registered and no other entry
\* changes; a name in neither map changes nothing.  Between the removal and
\* the return only a get_client(name) of another task puts a client under
\* name again.
C22_StopClosesThenKills ==
    [][\A t \in Tasks :
         /\ (mpc[t] \in StopPlaces /\ StepOf(t)) =>
               /\ mpc[t] = "stop_c_w" =>
                     /\ mname[t] \notin DOMAIN clients'
                     /\ servers' = servers
                     /\ mpc'[t] = IF mname[t] \in DOMAIN clients
                                  THEN "stop_close" ELSE "stop_s_w"
               /\ mpc[t] = "stop_close" =>
                     /\ mpc'[t] = "stop_s_w"
                     /\ servers' = servers /\ clients' = clients
               /\ mpc[t] = "stop_s_w" =>
                     /\ mpc'[t] = mret[t] /\ mres'[t] = "ok"
                     /\ clients' = clients
                     /\ DOMAIN servers' = DOMAIN servers
                     /\ ~Attached(mname[t])'
                     /\ \A n \in DOMAIN servers :
                           servers'[n].command = servers[n].command
                     /\ \A n \in Names \ {mname[t]} : SameEntry(n)
               /\ (mname[t] \notin DOMAIN servers /\ mname[t] \notin DOMAIN clients)
                     => servers' = servers /\ clients' = clients
         /\ (mpc[t] \in {"stop_close", "stop_s_w"}
               /\ mname[t] \notin DOMAIN clients /\ mname[t] \in DOMAIN clients') =>
               \E u \in Tasks \ {t} : StepAt(u, "gc_store_w", mname[t])]_vars

\* stop_server(name) has taken the cached client out of clients and is
\* closing it, with the child still attached to the config
C22_Witness ==
    \E t \in Tasks :
        /\ mpc[t] = "stop_close"
        /\ mret[t] = "idle"
        /\ Attached(mname[t])

\* task t is inside get_client(mname[t]), the nested start_server included
InGetClient(t) ==
    \/ mpc[t] \in {"gc_c_w", "gc_s_w", "gc_sse", "gc_init", "gc_store_w"}
    \/ mret[t] = "gc_stdio" /\ mpc[t] # "done"

\* C23: a get_client(name) that fails, because the name is unknown, the
\* child cannot be spawned or initialize fails, returns an error value (so
\* every get_client call returns), and the failed call has left the servers
\* map as it was and clients without an entry for name.
C23_FailedGetClientReturnsError ==
    /\ [][\A t \in Tasks :
            (InGetClient(t) /\ mpc'[t] = "done" /\ mres'[t] = "err") =>
               /\ servers' = servers
               /\ mname[t] \notin DOMAIN clients']_vars
    /\ \A t \in Tasks : InGetClient(t) ~> (mpc[t] = "done")

\* C24: once get_client(name) has succeeded, the session it cached is the
\* one every later get_client(name) returns until stop_server(name) or
\* unregister_server(name): the clients entry of name is not replaced or
\* removed by any other step, and get_client builds no client (no transport,
\* no initialize handshake) for a name that has one cached.
C24_CachedSessionIsShared ==
    [][\A n \in DOMAIN clients :
         /\ (n \notin DOMAIN clients' \/ clients'[n] # clients[n]) =>
               \E t \in Tasks :
                  StepAt(t, "stop_c_w", n) \/ StepAt(t, "unreg_c_w", n)
         /\ nclients' # nclients =>
               ~\E t \in Tasks : StepAt(t, "gc_sse", n)]_vars

\* C25: no task holds a guard of the servers lock and a guard of the
\* clients lock at the same time, or asks for one of the two locks while
\* it holds a guard of the other.
C25_NeverBothLocks ==
    LET Holds(l, t) == t \in l.readers \cup l.writer
        Wants(l, t) == \E i \in 1..Len(l.queue) : l.queue[i][1] = t
    IN  \A t \in Tasks :
           /\ ~(Holds(slock, t) /\ (Holds(clock, t) \/ Wants(clock, t)))
           /\ ~(Holds(clock, t) /\ (Holds(slock, t) \/ Wants(slock, t)))
(***************************************************************************)
(* Properties of test_connection                                           *)
(***************************************************************************)

\* C26: for an HTTP URL test_connection returns true when initialize has
\* succeeded (its `initialized` notification went out) and false when it
\* has failed, and in both cases the temporary transport has been closed by
\* the time it returns: the shutdown signal is with the SSE reader task, or
\* that task has ended, so it connects no more.
C26_TestConnectionClosesTransport ==
    \A t \in Tasks :
       (mpc[t] = "done" /\ mres[t] \in {"true", "false"}) =>
          /\ mres[t] = "true" <=> wire["initialized"] = 1
          /\ ~talive \/ shutdownq = 1

\* the entry is a regular file, executable, and its probe spawns
Passes(e) == e.file /\ e.meta = "exec" /\ e.probe \in {"help", "h"}

\* C27: discover_servers(dir) fails only when the directory cannot be
\* scanned; otherwise it returns the configs of exactly the entries that
\* pass, in the order of the listing: an entry that is not a regular file,
\* not executable, whose metadata cannot be read or whose probe fails is
\* skipped and the entries after it are still examined.
C27_DiscoverSkipsFailedEntries ==
    ret.st # "none" =>
       IF ~arg.readable THEN ret.st = "err"
       ELSE LET passed == SelectSeq(arg.entries, Passes)
            IN  /\ ret.st = "ok"
                /\ ret.val = [i \in 1..Len(passed) |-> DiscoveredConfig(passed[i])]

\* server.rs:270-273  what get_servers() returns for a servers map, as a
\* multiset of (name, command, args, env): how many configs have each value
ServerBag(held) ==
    LET fields(n) == <<held[n].name, held[n].command, held[n].args,
                       held[n].env>>
    IN  [c \in {fields(n) : n \in DOMAIN held} |->
            Cardinality({n \in DOMAIN held : fields(n) = c})]

\* C28: with MCP_CONFIG_PATH set, after save_default_config followed by
\* load_default_config, on the same manager or on an emptied one,
\* get_servers() returns the multiset of configs (name, command, args, env)
\* it returned before the save.
C28_SaveLoadRoundTrip ==
    ret.st = "ok" => ServerBag(ret.val) = ServerBag(arg.servers)

C28_Witness ==
    /\ ret.st = "ok"
    /\ arg.emptied
    /\ DOMAIN arg.servers = Names
    /\ arg.servers["x"].process
    /\ arg.servers["x"].env # <<>>
    /\ arg.servers["y"].args # <<>>

\* C29: for every base URL, when it ends in /sse the POST endpoint is the
\* base URL with only that final /sse replaced by /messages, also when /sse
\* occurs earlier in the URL; otherwise it is the base URL without its
\* trailing slashes, followed by /messages.
C29_PostUrlReplacesOnlySuffix ==
    ret.st = "ok" =>
        IF ends_with(arg, SsePath)
        THEN ret.val = SubSeq(arg, 1, Len(arg) - Len(SsePath)) \o MessagesPath
        ELSE \E k \in 0..Len(arg) :
                /\ \A i \in (k + 1)..Len(arg) : arg[i] = "/"
                /\ k > 0 => arg[k] # "/"
                /\ ret.val = SubSeq(arg, 1, k) \o MessagesPath
(***************************************************************************)
(* Further properties of the session                                       *)
(***************************************************************************)

\* the reader holds a response whose id is not a key of pending
UnknownResponse ==
    /\ rpc = "wait"
    /\ rchan.st = "msg"
    /\ rchan.m.kind = "resp"
    /\ PendingEntry(pending, ResponseKey(rchan.m)) = {}

\* C31: when the reader task handles a response whose id is not a key of
\* pending, pending is unchanged, no caller's oneshot is completed or
\* failed, and the reader goes back to its loop for the next message.
C31_UnknownIdDropped ==
    [][(UnknownResponse /\ rchan' # rchan) =>
          /\ pending' = pending
          /\ chan' = chan
          /\ rpc' = "loop"]_vars

\* the answer to a request that has timed out is in the reader's hands
\* while another request waits for its own
C31_Witness ==
    /\ UnknownResponse
    /\ ResponseKey(rchan.m) # "invalid"
    /\ \E e \in pending : Waits(e)
    /\ \E c \in Callers : chan[c].st = "timeout" /\ ToDecimal(cn[c]) = ResponseKey(rchan.m)

\* A well-formed envelope: jsonrpc is a string, method (if there) a
\* string, error (if there) null or an error object; and it is a request (id and
\* method), a response (id, result or error, no method) or a notification
\* (method, no id).
Has(v) == v # "missing"
WellFormed(e) ==
    /\ e.jsonrpc = "string"
    /\ e.method \in {"missing", "string"}
    /\ e.error \in {"missing", "null", "object"}
    /\ \/ Has(e.id) /\ Has(e.method)
       \/ Has(e.id) /\ ~Has(e.method) /\ (Has(e.result) \/ Has(e.error))
       \/ ~Has(e.id) /\ Has(e.method)

\* C32: decoding is total and unambiguous over the presence of id, method,
\* result and error: every well-formed envelope is decoded, one with id and
\* method as Request, one with id and result or error but no method as
\* Response, one with method and no id as Notification.
C32_DecodeTotal ==
    (ret.st # "none" /\ WellFormed(arg)) =>
        ret = Ok(IF Has(arg.id) /\ Has(arg.method) THEN "Request"
                 ELSE IF Has(arg.id) THEN "Response"
                 ELSE "Notification")

\* a request that also carries a result has been decoded
C32_Witness ==
    /\ ret.st = "ok"
    /\ WellFormed(arg)
    /\ Has(arg.id) /\ Has(arg.method) /\ Has(arg.result)

\* C33: every initialize() call that has returned success is preceded by an
\* initialized notification handed to the transport on the session, and the
\* notification is handed over only after the response to the initialize
\* request was received (and stored).
C33_InitializedBeforeSuccess ==
    /\ \A c \in Callers :
          (cpc[c] = "done" /\ ccall[c] = "initialize" /\ cres[c].st = "ok")
              => wire["initialized"] >= 1
    /\ wire["initialized"] >= 1 => server_info # NoVal

\* C34: every entry of pending belongs to a request whose caller is still
\* inside send_request, handing it to the transport or waiting for its
\* response; a call whose transport.send failed has returned the error and
\* its id is not a key of pending.
C34_PendingOnlyInFlight ==
    /\ \A e \in pending :
          cn[e.caller] = e.n /\ cpc[e.caller] \in {"sr_send", "sr_wait"}
    /\ \A c \in Callers :
          (cpc[c] = "done" /\ chan[c].st = "sendfail") =>
              /\ cres[c].st = "err"
              /\ PendingEntry(pending, ToDecimal(cn[c])) = {}

\* C35: when a caller drops a request that waits for its response, the
\* request's id is removed from pending.
C35_CancelRemovesEntry ==
    [][\A c \in Callers :
          (cpc[c] = "sr_wait" /\ chan'[c].st = "dropped") =>
              PendingEntry(pending', ToDecimal(cn[c])) = {}]_vars

\* the child's stdout is at EOF for the stdio reader task
StdoutAtEof == tkind = "stdio" /\ talive /\ childState = "dead" /\ childOut = <<>>

\* C36: on the stdio transport, when the reader task leaves its loop (on
\* EOF or on the signal of close()) a waiting receive() is cancelled, and a
\* cancelled receive() returns ConnectionClosed; the task's exit and every
\* close() take the child out of its mutex, which is what triggers the
\* kill, and once it is taken no later exit or close() touches the child
\* again; after EOF and after a call of close() the task does exit and the
\* child is taken, however the two race.
C36_StdioShutsDownOnce ==
    /\ [][tkind = "stdio" =>
            /\ (talive /\ ~talive') =>
                  /\ ~child'
                  /\ ReceiveWaits => rchan'.st = "canceled"
            /\ (rchan.st = "canceled" /\ rchan' # rchan)
                  => rlast' = "ConnectionClosed"
            /\ \A c \in Callers :
                  (cpc[c] = "close_kill" /\ cpc'[c] = "done") => ~child'
            /\ ~child => (~child' /\ childState' = childState)]_vars
    /\ StdoutAtEof ~> (~talive /\ ~child)
    /\ \A c \in Callers :
          (tkind = "stdio" /\ InTransportClose(c)) ~> (~talive /\ ~child)

\* the child ended by itself, both tasks have called close() and are back,
\* and the receive() that was waiting has returned ConnectionClosed
C36_Witness ==
    /\ tkind = "stdio"
    /\ \A c \in Callers :
          cpc[c] = "done" /\ ccall[c] = "transport.close" /\ cres[c].st = "ok"
    /\ ~talive /\ ~child
    /\ rlast = "ConnectionClosed"
    /\ sent > 0

\* task t is inside get_client(n) with a client it has built
HoldsBuiltClient(t, n) ==
    mpc[t] \in {"gc_init", "gc_store_w"} /\ mname[t] = n

\* C37: when several tasks call get_client(name) concurrently for a
\* registered name with no cached client, at most one of them builds a
\* client session for the name, and every call that returns success
\* returns the session stored in clients[name].
C37_OneSessionForConcurrentCallers ==
    /\ [](\A n \in Names : \A t1, t2 \in Tasks :
             (HoldsBuiltClient(t1, n) /\ HoldsBuiltClient(t2, n)) => t1 = t2)
    /\ [][\A t \in Tasks :
            (InGetClient(t) /\ mpc'[t] = "done" /\ mres'[t] = "ok") =>
               /\ mname[t] \in DOMAIN clients'
               /\ clients'[mname[t]] = mclient'[t]]_vars

\* C38: no interleaving of manager operations leaves a registry lock
\* unavailable for good: a register_server() call, which asks for the
\* servers write lock, eventually returns whatever ran before it (and so
\* does a get_servers() call, which queues for the same lock behind it).
C38_RegisterEventuallyReturns ==
    \A t \in Tasks : (mpc[t] = "reg_w") ~> (mpc[t] = "done")

\* C39: test_connection and discover_servers leave the registry as it is:
\* no step of either changes the servers map or the clients map (or takes
\* one of their locks), whatever the call returns, so the configs that
\* discover_servers returns are not registered by it.
C39_ProbesLeaveRegistry ==
    [][/\ servers' = servers
       /\ clients' = clients
       /\ slock' = slock
       /\ clock' = clock]_vars

\* on a manager with a registered config and a cached client,
\* test_connection has returned true and discover_servers a config
C39_Witness ==
    /\ servers # << >>
    /\ clients # << >>
    /\ \E t \in Tasks : mpc[t] = "done" /\ mres[t] = "true"
    /\ ret.st = "ok"
    /\ Len(ret.val) = 1
    /\ ret.val[1].name \notin DOMAIN servers
=============================================================================
